----------------------------- MODULE ZCacheTags -----------------------------
(***************************************************************************)
(* The tag store of the zcache (zcache/zcache_tags.cc over the indexing    *)
(* policy of zcache/zcache_index.cc).  A line has one slot per way, given  *)
(* by one hash function per way.  A miss searches the slots that could be  *)
(* freed by relocating lines, breadth first, evicts one line, and then     *)
(* moves lines one after the other along the chain from the victim's slot  *)
(* to a slot of the missing line.                                          *)
(*                                                                         *)
(* gem5's BaseCache runs findVictim(), the eviction and insertBlock() in   *)
(* one event, so no request arrives while pc # "idle"; what it does        *)
(* between the two calls may still fail (RefuseEviction).                  *)
(***************************************************************************)
EXTENDS Integers, Sequences, SequencesExt

CONSTANTS
    Line,           \* the block-aligned addresses, which are also the tags
    NoLine,         \* the tag of an invalid block
    NumWays,
    NumSets,
    Hash,           \* Hash[l][w]: the H3 hash of line l for way w
    WalkLevels,     \* p.walk_levels
    NumCandidates,  \* p.num_candidates
    Written         \* the lines that are ever written

Ways == 0 .. (NumWays - 1)
Sets == 0 .. (NumSets - 1)
Slots == Sets \X Ways

\* The constructors of the tags and of the indexing policy refuse the rest.
ASSUME WaysAssumption == NumWays \in Nat /\ NumWays >= 2
ASSUME SetsAssumption == NumSets \in Nat /\ NumSets > 2
ASSUME HashAssumption == Hash \in [Line -> [Ways -> Sets]]
ASSUME WalkAssumption == /\ WalkLevels \in Nat \ {0}
                         /\ NumCandidates \in Nat /\ NumCandidates >= NumWays
ASSUME LineAssumption == NoLine \notin Line /\ Written \subseteq Line

\* extractSet() for way w: the slot of line l in that way.
Home(l, w) == <<Hash[l][w], w>>
Homes(l)   == {Home(l, w) : w \in Ways}

\* The slots of line l in the other ways, in way order.
getAlternativeLocations(curWay, l) ==
    [i \in 1 .. (NumWays - 1) |-> Home(l, IF i <= curWay THEN i - 1 ELSE i)]
-----------------------------------------------------------------------------
VARIABLES
    tag,            \* the tag of each block, NoLine when it is invalid
    dirty,
    owed,           \* the lines whose last write has not reached memory
    pc,             \* "idle", or the part of the miss being executed
    req,            \* the line being brought in
    candidates,     \* the nodes of the walk: [slot, parentIdx], 0 for a root
    fi, fringeEnd, level,
    idx,            \* the node at which the chain is being built
    pendingSwapChain,
    i               \* the next relocation of insertBlock()

walk == <<candidates, fi, fringeEnd, level, idx>>
vars == <<tag, dirty, owed, pc, req, walk, pendingSwapChain, i>>

isValid(s) == tag[s] # NoLine

\* findBlock(): the first way whose slot holds the line.
Hits(l)      == {w \in Ways : tag[Home(l, w)] = l}
findBlock(l) == Home(l, CHOOSE w \in Hits(l) : \A v \in Hits(l) : w <= v)

Init ==
    /\ tag = [s \in Slots |-> NoLine]
    /\ dirty = [s \in Slots |-> FALSE]
    /\ owed = {}
    /\ pc = "idle" /\ req = NoLine
    /\ candidates = <<>> /\ fi = 0 /\ fringeEnd = 0 /\ level = 0 /\ idx = 0
    /\ pendingSwapChain = <<>> /\ i = 0

(***************************************************************************)
(* findVictim(): an empty slot among the line's own is used at once.       *)
(***************************************************************************)
FindFreeHome(l) ==
    /\ pc = "idle" /\ Hits(l) = {}
    /\ \E w \in Ways : /\ ~isValid(Home(l, w))
                       /\ \A v \in 0 .. (w - 1) : isValid(Home(l, v))
                       /\ pendingSwapChain' = <<Home(l, w)>>
    /\ req' = l /\ i' = 2 /\ pc' = "insert"
    /\ UNCHANGED <<tag, dirty, owed, walk>>

\* Otherwise the walk is seeded with the line's own slots.
SeedWalk_OwnParents(l) ==                   \* mutant: roots are their own parents
    /\ pc = "idle" /\ Hits(l) = {}
    /\ \A w \in Ways : isValid(Home(l, w))
    /\ pendingSwapChain' = <<>>
    /\ candidates' = [n \in 1 .. NumWays |-> [slot |-> Home(l, n - 1), parentIdx |-> n]]
    /\ fi' = 1 /\ fringeEnd' = NumWays /\ level' = 1
    /\ req' = l /\ pc' = "level"
    /\ UNCHANGED <<tag, dirty, owed, idx, i>>
SeedWalk(l) ==
    /\ pc = "idle" /\ Hits(l) = {}
    /\ \A w \in Ways : isValid(Home(l, w))
    /\ pendingSwapChain' = <<>>
    /\ candidates' = [n \in 1 .. NumWays |-> [slot |-> Home(l, n - 1), parentIdx |-> 0]]
    /\ fi' = 1 /\ fringeEnd' = NumWays /\ level' = 1
    /\ req' = l /\ pc' = "level"
    /\ UNCHANGED <<tag, dirty, owed, idx, i>>

\* The condition of the outer loop, tested once per level.
AllValid_OfTheLastNode == isValid(Last(candidates).slot)    \* mutant: overwritten
AllValid == \A n \in DOMAIN candidates : isValid(candidates[n].slot)
StartLevel ==
    /\ pc = "level"
    /\ pc' = IF Len(candidates) < NumCandidates /\ AllValid /\ level < WalkLevels
             THEN "walk" ELSE "select"
    /\ UNCHANGED <<tag, dirty, owed, req, walk, pendingSwapChain, i>>

\* The condition of the inner loop, and its break.
InFringe == /\ fi <= fringeEnd
            /\ Len(candidates) < NumCandidates
            /\ isValid(candidates[fi].slot)

\* One fringe node: the other slots of its line, as far as there is room.
\* (None of them is the node's own slot, which is in the way left out.)
ExpandNode_ParentOffByOne ==                \* mutant: parentIdx = fi - 1
    /\ pc = "walk" /\ InFringe
    /\ LET slot == candidates[fi].slot
           alts == getAlternativeLocations(slot[2], tag[slot])
           room == NumCandidates - Len(candidates)
           n    == IF room < Len(alts) THEN room ELSE Len(alts)
       IN candidates' = candidates \o
              [a \in 1 .. n |-> [slot |-> alts[a], parentIdx |-> fi - 1]]
    /\ fi' = fi + 1
    /\ UNCHANGED <<tag, dirty, owed, pc, req, fringeEnd, level, idx, pendingSwapChain, i>>
ExpandNode ==
    /\ pc = "walk" /\ InFringe
    /\ LET slot == candidates[fi].slot
           alts == getAlternativeLocations(slot[2], tag[slot])
           room == NumCandidates - Len(candidates)
           n    == IF room < Len(alts) THEN room ELSE Len(alts)
       IN candidates' = candidates \o
              [a \in 1 .. n |-> [slot |-> alts[a], parentIdx |-> fi]]
    /\ fi' = fi + 1
    /\ UNCHANGED <<tag, dirty, owed, pc, req, fringeEnd, level, idx, pendingSwapChain, i>>

EndLevel ==
    /\ pc = "walk" /\ ~InFringe
    /\ fi' = fringeEnd + 1 /\ fringeEnd' = Len(candidates)
    /\ level' = level + 1
    /\ pc' = IF fringeEnd = Len(candidates) THEN "select" ELSE "level"
    /\ UNCHANGED <<tag, dirty, owed, req, candidates, idx, pendingSwapChain, i>>

(***************************************************************************)
(* The victim is the first empty slot found, or else the slot that the     *)
(* replacement policy names: any of the candidates as far as this module   *)
(* is concerned.  The node is the first one with that slot.                *)
(***************************************************************************)
ChooseNode(n) == /\ idx' = n
                 /\ pc' = "chain"
                 /\ UNCHANGED <<tag, dirty, owed, req, candidates, fi, fringeEnd, level,
                                pendingSwapChain, i>>
SelectFree ==
    /\ pc = "select"
    /\ \E n \in DOMAIN candidates :
          /\ ~isValid(candidates[n].slot)
          /\ \A m \in 1 .. (n - 1) : isValid(candidates[m].slot)
          /\ ChooseNode(n)

SelectByPolicy ==
    /\ pc = "select" /\ AllValid
    /\ \E n \in DOMAIN candidates :
          /\ \A m \in 1 .. (n - 1) : candidates[m].slot # candidates[n].slot
          /\ ChooseNode(n)

\* The chain is read off the parents, from the victim to a root.
BuildChain ==
    /\ pc = "chain" /\ idx # 0
    /\ pendingSwapChain' = Append(pendingSwapChain, candidates[idx].slot)
    /\ idx' = candidates[idx].parentIdx
    /\ UNCHANGED <<tag, dirty, owed, pc, req, candidates, fi, fringeEnd, level, i>>

\* findVictim() returns; only a valid victim goes to evict_blks.
ReturnVictim_EvictsNothing ==               \* mutant: evict_blks left empty
    /\ pc = "chain" /\ idx = 0
    /\ pc' = "insert"
    /\ i' = 2
    /\ candidates' = <<>> /\ fi' = 0 /\ fringeEnd' = 0 /\ level' = 0
    /\ UNCHANGED <<tag, dirty, owed, req, idx, pendingSwapChain>>
ReturnVictim ==
    /\ pc = "chain" /\ idx = 0
    /\ pc' = IF isValid(Head(pendingSwapChain)) THEN "evict" ELSE "insert"
    /\ i' = 2
    /\ candidates' = <<>> /\ fi' = 0 /\ fringeEnd' = 0 /\ level' = 0
    /\ UNCHANGED <<tag, dirty, owed, req, idx, pendingSwapChain>>

(***************************************************************************)
(* BaseCache: the victim is written back if it is dirty, and invalidated;  *)
(* or the eviction is refused, because a request on the victim is          *)
(* outstanding, and the fill is given up with the chain still pending.     *)
(***************************************************************************)
invalidate(s) == /\ tag' = [tag EXCEPT ![s] = NoLine]
                 /\ dirty' = [dirty EXCEPT ![s] = FALSE]

writeback(s) == owed' = IF dirty[s] THEN owed \ {tag[s]} ELSE owed

EvictVictim_EvictsTheRoot ==                \* mutant: the wrong end of the chain
    /\ pc = "evict"
    /\ writeback(Head(pendingSwapChain))
    /\ invalidate(Last(pendingSwapChain))
    /\ pc' = "insert"
    /\ UNCHANGED <<req, walk, pendingSwapChain, i>>

EvictVictim ==
    /\ pc = "evict"
    /\ writeback(Head(pendingSwapChain))
    /\ invalidate(Head(pendingSwapChain))
    /\ pc' = "insert"
    /\ UNCHANGED <<req, walk, pendingSwapChain, i>>

RefuseEviction ==
    /\ pc = "evict"
    /\ pc' = "idle" /\ req' = NoLine /\ i' = 0
    /\ UNCHANGED <<tag, dirty, owed, walk, pendingSwapChain>>

(***************************************************************************)
(* insertBlock(): every block of the chain moves one place towards the     *)
(* victim, then the line goes into the root.                               *)
(***************************************************************************)
doMoveBlock_KeepsSource(src, dst) ==        \* mutant: src is not invalidated
    /\ tag' = [tag EXCEPT ![dst] = tag[src]]
    /\ dirty' = [dirty EXCEPT ![dst] = dirty[src], ![src] = FALSE]
doMoveBlock_DropsDirty(src, dst) ==         \* mutant: only the tag is moved
    /\ tag' = [tag EXCEPT ![dst] = tag[src], ![src] = NoLine]
    /\ dirty' = [dirty EXCEPT ![src] = FALSE]
doMoveBlock(src, dst) ==
    /\ tag' = [tag EXCEPT ![dst] = tag[src], ![src] = NoLine]
    /\ dirty' = [dirty EXCEPT ![dst] = dirty[src], ![src] = FALSE]

MoveBlock_IntoTheVictim ==                  \* mutant: moveDst = chain[0]
    /\ pc = "insert" /\ i <= Len(pendingSwapChain)
    /\ IF isValid(pendingSwapChain[i])
       THEN doMoveBlock(pendingSwapChain[i], Head(pendingSwapChain))
       ELSE UNCHANGED <<tag, dirty>>
    /\ i' = i + 1
    /\ UNCHANGED <<owed, pc, req, walk, pendingSwapChain>>

MoveBlock ==
    /\ pc = "insert" /\ i <= Len(pendingSwapChain)
    /\ IF isValid(pendingSwapChain[i])
       THEN doMoveBlock(pendingSwapChain[i], pendingSwapChain[i - 1])
       ELSE UNCHANGED <<tag, dirty>>
    /\ i' = i + 1
    /\ UNCHANGED <<owed, pc, req, walk, pendingSwapChain>>

InsertLine ==
    /\ pc = "insert" /\ i > Len(pendingSwapChain)
    /\ tag' = [tag EXCEPT ![Last(pendingSwapChain)] = req]
    /\ pendingSwapChain' = <<>>
    /\ pc' = "idle" /\ req' = NoLine /\ i' = 0
    /\ UNCHANGED <<dirty, owed, walk>>

(***************************************************************************)
(* Requests that hit, and snoops.                                          *)
(***************************************************************************)
WriteHit(l) ==
    /\ pc = "idle" /\ Hits(l) # {}
    /\ dirty' = [dirty EXCEPT ![findBlock(l)] = TRUE]
    /\ owed' = owed \cup {l}
    /\ UNCHANGED <<tag, pc, req, walk, pendingSwapChain, i>>

\* A snoop takes the block away; a dirty block is handed to the requester.
SnoopInvalidate(l) ==
    /\ pc = "idle" /\ Hits(l) # {}
    /\ writeback(findBlock(l))
    /\ invalidate(findBlock(l))
    /\ UNCHANGED <<pc, req, walk, pendingSwapChain, i>>

Walk == StartLevel \/ ExpandNode \/ EndLevel \/ SelectFree \/ SelectByPolicy
        \/ BuildChain \/ ReturnVictim

Next ==
    \/ \E l \in Line : FindFreeHome(l) \/ SeedWalk(l) \/ SnoopInvalidate(l)
    \/ \E l \in Written : WriteHit(l)
    \/ Walk
    \/ EvictVictim \/ RefuseEviction
    \/ MoveBlock \/ InsertLine

Spec == Init /\ [][Next]_vars
-----------------------------------------------------------------------------
Node == [slot : Slots, parentIdx : Nat]
Phases == {"idle", "level", "walk", "select", "chain", "evict", "insert"}

\* The tag array, the walk and the chain stay in their types, and a walk never
\* holds more nodes than num_candidates (the clamp of findVictim() is idle).
TypeOK ==
    /\ tag \in [Slots -> Line \cup {NoLine}]
    /\ dirty \in [Slots -> BOOLEAN]
    /\ owed \subseteq Written
    /\ pc \in Phases
    /\ req \in Line \cup {NoLine} /\ (req = NoLine <=> pc = "idle")
    /\ candidates \in Seq(Node) /\ Len(candidates) <= NumCandidates
    /\ fi \in Nat /\ fringeEnd \in 0 .. Len(candidates) /\ level \in Nat
    /\ idx \in 0 .. Len(candidates)
    /\ \A n \in DOMAIN candidates : candidates[n].parentIdx < n
    /\ pendingSwapChain \in Seq(Slots) /\ i \in Nat

\* Every cached line sits in a slot where findBlock() looks for it, however
\* often it was relocated.
Placement == \A s \in Slots : isValid(s) => s \in Homes(tag[s])

\* No line is cached twice: a second copy would keep serving old data.
NoDuplicateLine ==
    \A s, t \in Slots : isValid(s) /\ tag[s] = tag[t] => s = t

\* A write is never lost: until it is in memory, a dirty block that a lookup
\* finds holds it, also while lines are being relocated.
NoLostWrite ==
    \A l \in owed : \E w \in Ways : tag[Home(l, w)] = l /\ dirty[Home(l, w)]

\* The assertions of doMoveBlock() and insertBlock(): a block is moved only
\* into an invalid one, and the root is free when the line goes in.
RelocationAsserts ==
    pc = "insert" =>
        IF i <= Len(pendingSwapChain)
        THEN isValid(pendingSwapChain[i]) => ~isValid(pendingSwapChain[i - 1])
        ELSE ~isValid(Last(pendingSwapChain))

\* The chain that is about to be executed starts at a slot of the missing line
\* and each of its blocks may legally move to the slot before it.  It is no
\* longer than walk_levels and visits no slot twice, although the walk may
\* have met a slot any number of times.
ChainIsLegal ==
    pc \in {"evict", "insert"} /\ i = 2 =>
        /\ pendingSwapChain # <<>>
        /\ Last(pendingSwapChain) \in Homes(req)
        /\ \A n \in 2 .. Len(pendingSwapChain) :
              /\ isValid(pendingSwapChain[n])
              /\ pendingSwapChain[n - 1] \in Homes(tag[pendingSwapChain[n]])
        /\ Len(pendingSwapChain) <= WalkLevels
        /\ IsInjective(pendingSwapChain)

\* A line is evicted only when there is no room nearby: the slots of the
\* missing line are all taken, and so are all the alternatives of the lines on
\* the chain.  (The parent of the victim is excepted: num_candidates may cut
\* the walk short in the middle of its alternatives.)
EvictsOnlyWhenFull ==
    pc = "evict" =>
        /\ \A s \in Homes(req) : isValid(s)
        /\ \A n \in 3 .. Len(pendingSwapChain) :
              \A s \in Homes(tag[pendingSwapChain[n]]) : isValid(s)

\* The tag array as a set of lines: a miss adds one and takes at most the
\* evicted one away, and relocation is invisible (see LineStore).
Cached   == {tag[s] : s \in Slots} \ {NoLine}
Modified == {tag[s] : s \in {t \in Slots : isValid(t) /\ dirty[t]}}
Store == INSTANCE LineStore WITH cached <- Cached, modified <- Modified
ImplementsLineStore == Store!Spec
=============================================================================
