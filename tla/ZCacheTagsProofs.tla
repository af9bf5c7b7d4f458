-------------------------- MODULE ZCacheTagsProofs --------------------------
(***************************************************************************)
(* Theorems about the tag store, for any number of ways, sets and lines,   *)
(* any hash functions and any limits of the walk.                          *)
(***************************************************************************)
EXTENDS ZCacheTags, SequenceTheorems, TLAPS

(***************************************************************************)
(* The inductive invariant.  First the tag array, which holds at every     *)
(* step, also in the middle of a chain.  That no write is lost is kept     *)
(* apart: the rest does not need it, and holds also where blocks leave     *)
(* without being written back.                                             *)
(***************************************************************************)
RequestIsAbsent  == pc # "idle" => \A s \in Slots : tag[s] # req
CleanWhenInvalid == \A s \in Slots : ~isValid(s) => dirty[s] = FALSE

TagInv == /\ Placement
          /\ NoDuplicateLine
          /\ RequestIsAbsent
          /\ CleanWhenInvalid

(***************************************************************************)
(* The tree of the walk.  A node was reached from a valid slot, by one of  *)
(* the other homes of its line; and when a node has a parent, everything   *)
(* that can be reached from the nodes before the parent is listed before   *)
(* the node.  That is why the first node with a slot has a parent which is *)
(* the first with its slot, and why a chain visits no slot twice.          *)
(***************************************************************************)
Slot(n)         == candidates[n].slot
Parent(n)       == candidates[n].parentIdx
Alternatives(s) == {Home(tag[s], w) : w \in Ways \ {s[2]}}
Listed(s, n)    == \E k \in 1 .. n : Slot(k) = s
Full(n)         == \A s \in Alternatives(Slot(n)) : Listed(s, Len(candidates))
FirstOfSlot(n)  == \A k \in 1 .. (n - 1) : Slot(k) # Slot(n)

Searching == pc \in {"level", "walk", "select"}
Walking   == Searching \/ pc = "chain"

NodesLegal ==
    \A n \in 1 .. Len(candidates) :
        IF Parent(n) = 0
        THEN Slot(n) \in Homes(req)
        ELSE isValid(Slot(Parent(n))) /\ Slot(n) \in Alternatives(Slot(Parent(n)))

BreadthFirst ==
    \A n \in 1 .. Len(candidates) : \A a \in 1 .. (Parent(n) - 1) :
        \A s \in Alternatives(Slot(a)) : Listed(s, n - 1)

\* While there is room, the nodes that the walk has passed are expanded.
PassedAreFull ==
    /\ pc = "walk" \/ (pc = "level" /\ AllValid)
    /\ Len(candidates) < NumCandidates
    => \A a \in 1 .. (fi - 1) : Full(a)

\* The number of slots on the way from a node to its root.
IsDepth(d) ==
    /\ d \in [1 .. Len(candidates) -> Nat]
    /\ \A n \in 1 .. Len(candidates) :
          /\ d[n] = IF Parent(n) = 0 THEN 1 ELSE d[Parent(n)] + 1
          /\ d[n] <= WalkLevels
    /\ pc = "level" => /\ level <= WalkLevels
                       /\ \A n \in 1 .. Len(candidates) : d[n] <= level
    /\ pc = "walk" => /\ level < WalkLevels
                      /\ \A n \in 1 .. fringeEnd : d[n] <= level
                      /\ \A n \in 1 .. Len(candidates) : d[n] <= level + 1
    /\ pc = "chain" => Len(pendingSwapChain) + (IF idx = 0 THEN 0 ELSE d[idx]) <= WalkLevels

WalkInv ==
    Walking => /\ \A w \in Ways : isValid(Home(req, w))
               /\ NodesLegal
               /\ BreadthFirst
               /\ PassedAreFull
               /\ \E d \in [1 .. Len(candidates) -> Nat] : IsDepth(d)
               /\ Searching => pendingSwapChain = <<>> /\ fi \in Nat \ {0}

(***************************************************************************)
(* The chain while it is read off the tree.                                *)
(***************************************************************************)
Linked(c, from) ==
    \A n \in from .. Len(c) : isValid(c[n]) /\ c[n - 1] \in Homes(tag[c[n]])

Crowded(c) ==
    \A n \in 3 .. Len(c) : \A s \in Homes(tag[c[n]]) : isValid(s)

ChainStart ==
    pendingSwapChain = <<>> => /\ idx # 0
                               /\ FirstOfSlot(idx)
                               /\ isValid(Slot(idx)) => AllValid

ChainSoFar ==
    pendingSwapChain # <<>> =>
        /\ \E m \in 1 .. Len(candidates) :
              /\ Slot(m) = Last(pendingSwapChain)
              /\ Parent(m) = idx
              /\ FirstOfSlot(m)
              /\ \A n \in 1 .. (Len(pendingSwapChain) - 1) :
                    ~Listed(pendingSwapChain[n], m)
        /\ isValid(pendingSwapChain[1]) => AllValid
        /\ AllValid => Crowded(pendingSwapChain)
        /\ Len(pendingSwapChain) >= 2 => \A a \in 1 .. idx : Full(a)

ChainInv ==
    pc = "chain" => /\ ChainStart
                    /\ ChainSoFar
                    /\ Linked(pendingSwapChain, 2)
                    /\ IsInjective(pendingSwapChain)

(***************************************************************************)
(* The chain while it is executed: the part from i on is still legal.      *)
(***************************************************************************)
ExecInv ==
    pc \in {"evict", "insert"} =>
        /\ Len(pendingSwapChain) \in 1 .. WalkLevels
        /\ pendingSwapChain[Len(pendingSwapChain)] \in Homes(req)
        /\ IsInjective(pendingSwapChain)
        /\ i \in 2 .. (Len(pendingSwapChain) + 1)
        /\ Linked(pendingSwapChain, i)
        /\ pc = "evict" => /\ i = 2
                           /\ isValid(pendingSwapChain[1])
                           /\ \A s \in Homes(req) : isValid(s)
                           /\ Crowded(pendingSwapChain)
        /\ pc = "insert" => ~isValid(pendingSwapChain[i - 1])

\* Between two walks.
AtRest == ~Walking => idx = 0

IInv == TypeOK /\ TagInv /\ AtRest /\ WalkInv /\ ChainInv /\ ExecInv
-----------------------------------------------------------------------------
LEMMA HomeType ==
    ASSUME NEW l \in Line, NEW w \in Ways
    PROVE  Home(l, w) \in Slots /\ Home(l, w)[2] = w
BY HashAssumption DEF Home, Slots

LEMMA HomesType ==
    ASSUME NEW l \in Line
    PROVE  Homes(l) \subseteq Slots
BY HomeType DEF Homes

\* A line is in its place, so its homes are its slot and the alternatives.
LEMMA AlternativesOfSlot ==
    ASSUME TypeOK, Placement, NEW s \in Slots, isValid(s)
    PROVE  /\ tag[s] \in Line
           /\ s[2] \in Ways
           /\ Homes(tag[s]) = Alternatives(s) \cup {s}
           /\ Alternatives(s) \subseteq Slots
<1>1. tag[s] \in Line /\ s[2] \in Ways
    BY DEF TypeOK, isValid, Slots
<1>2. PICK w \in Ways : s = Home(tag[s], w)
    BY DEF Placement, Homes
<1>3. w = s[2]
    BY <1>1, <1>2, HomeType
<1>4. Homes(tag[s]) = Alternatives(s) \cup {s}
    BY <1>2, <1>3 DEF Homes, Alternatives
<1> QED
    BY <1>1, <1>4, HomesType

LEMMA AlternativesListed ==
    ASSUME NEW cw \in Ways, NEW l \in Line
    PROVE  LET alts == getAlternativeLocations(cw, l) IN
           /\ alts \in Seq(Slots)
           /\ Len(alts) = NumWays - 1
           /\ \A a \in 1 .. (NumWays - 1) : alts[a] \in {Home(l, w) : w \in Ways \ {cw}}
           /\ \A w \in Ways \ {cw} : \E a \in 1 .. (NumWays - 1) : alts[a] = Home(l, w)
<1> DEFINE alts == getAlternativeLocations(cw, l)
           other(a) == IF a <= cw THEN a - 1 ELSE a
<1>0. NumWays \in Nat /\ NumWays >= 2 /\ cw \in 0 .. (NumWays - 1)
    BY WaysAssumption DEF Ways
<1>1. \A a \in 1 .. (NumWays - 1) : other(a) \in Ways \ {cw}
    BY <1>0 DEF Ways
<1>2. alts = [a \in 1 .. (NumWays - 1) |-> Home(l, other(a))]
    BY DEF getAlternativeLocations
<1>3. \A a \in 1 .. (NumWays - 1) : Home(l, other(a)) \in Slots
    BY <1>1, HomeType
<1>4. \A w \in Ways \ {cw} : \E a \in 1 .. (NumWays - 1) : other(a) = w
    <2> TAKE w \in Ways \ {cw}
    <2>1. CASE w < cw
        <3>1. w + 1 \in 1 .. (NumWays - 1) /\ other(w + 1) = w
            BY <2>1, <1>0 DEF Ways
        <3> QED
            BY <3>1
    <2>2. CASE w > cw
        <3>1. w \in 1 .. (NumWays - 1) /\ other(w) = w
            BY <2>2, <1>0 DEF Ways
        <3> QED
            BY <3>1
    <2> QED
        BY <2>1, <2>2, <1>0 DEF Ways
<1> HIDE DEF other
<1>5. alts \in Seq(Slots) /\ Len(alts) = NumWays - 1
    BY <1>0, <1>2, <1>3
<1> QED
    BY <1>1, <1>2, <1>4, <1>5

\* The line that a lookup finds is the only copy.
LEMMA FoundBlock ==
    ASSUME TypeOK, NoDuplicateLine, NEW l \in Line, Hits(l) # {}
    PROVE  /\ findBlock(l) \in Slots
           /\ tag[findBlock(l)] = l
           /\ \A s \in Slots : tag[s] = l => s = findBlock(l)
<1>1. PICK w \in Ways : tag[Home(l, w)] = l
    BY DEF Hits
<1>2. Home(l, w) \in Slots /\ isValid(Home(l, w))
    BY <1>1, HomeType, LineAssumption DEF isValid
<1>3. \A s \in Slots : tag[s] = l => s = Home(l, w)
    BY <1>1, <1>2 DEF NoDuplicateLine
<1>4. Hits(l) = {w}
    <2>1. ASSUME NEW v \in Hits(l)
          PROVE  v = w
        <3>1. v \in Ways /\ Home(l, v) \in Slots /\ Home(l, v) = Home(l, w)
            BY <1>3, HomeType DEF Hits
        <3> QED
            BY <3>1, HomeType
    <2> QED
        BY <1>1, <2>1 DEF Hits
<1>5. w \in Int
    BY WaysAssumption DEF Ways
<1>6. findBlock(l) = Home(l, w)
    BY <1>4, <1>5 DEF findBlock
<1> QED
    BY <1>1, <1>2, <1>3, <1>6

\* A miss: with every line in its place, no block has the tag.
LEMMA MissIsAbsent ==
    ASSUME TypeOK, Placement, NEW l \in Line, Hits(l) = {}
    PROVE  \A s \in Slots : tag[s] # l
BY LineAssumption DEF Placement, Homes, Hits, isValid

-----------------------------------------------------------------------------
LEMMA InitHolds == Init => IInv
<1> SUFFICES ASSUME Init PROVE IInv
    OBVIOUS
<1> USE DEF Init
<1>1. TypeOK
    BY WalkAssumption DEF TypeOK, Phases
<1>2. TagInv
    BY DEF TagInv, Placement, NoDuplicateLine, RequestIsAbsent, CleanWhenInvalid, isValid
<1>3. WalkInv /\ ChainInv /\ ExecInv /\ AtRest
    BY DEF WalkInv, Walking, Searching, ChainInv, ExecInv, AtRest
<1> QED
    BY <1>1, <1>2, <1>3 DEF IInv

\* What ExpandNode appends.
LEMMA ExpandShape ==
    ASSUME TypeOK, Placement, ExpandNode, fi # 0
    PROVE  /\ Slot(fi) \in Slots /\ isValid(Slot(fi))
           /\ fi \in 1 .. Len(candidates)
           /\ candidates' \in Seq(Node)
           /\ Len(candidates) <= Len(candidates') /\ Len(candidates') <= NumCandidates
           /\ \A k \in 1 .. Len(candidates) : candidates'[k] = candidates[k]
           /\ \A k \in (Len(candidates) + 1) .. Len(candidates') :
                 Parent(k)' = fi /\ Slot(k)' \in Alternatives(Slot(fi))
           /\ Len(candidates') < NumCandidates =>
                 \A s \in Alternatives(Slot(fi)) : Listed(s, Len(candidates))'
<1> DEFINE slot == candidates[fi].slot
           alts == getAlternativeLocations(slot[2], tag[slot])
           room == NumCandidates - Len(candidates)
           n    == IF room < Len(alts) THEN room ELSE Len(alts)
           new  == [a \in 1 .. n |-> [slot |-> alts[a], parentIdx |-> fi]]
<1>1. /\ candidates \in Seq(Node) /\ Len(candidates) \in Nat
      /\ fi \in 1 .. Len(candidates) /\ fi \in Nat
      /\ Len(candidates) < NumCandidates /\ NumCandidates \in Nat
      /\ slot \in Slots /\ isValid(slot)
    <2>1. candidates \in Seq(Node) /\ Len(candidates) \in Nat /\ fi \in Nat
          /\ fringeEnd \in 0 .. Len(candidates)
        BY DEF TypeOK
    <2>2. fi <= fringeEnd /\ Len(candidates) < NumCandidates /\ isValid(slot)
        BY DEF ExpandNode, InFringe
    <2>3. fi \in 1 .. Len(candidates)
        BY <2>1, <2>2
    <2>4. candidates[fi] \in Node
        BY <2>1, <2>3
    <2> QED
        BY <2>1, <2>2, <2>3, <2>4, WalkAssumption DEF Node
<1>2. /\ tag[slot] \in Line /\ slot[2] \in Ways
    BY <1>1, AlternativesOfSlot
<1>3. /\ alts \in Seq(Slots) /\ Len(alts) = NumWays - 1 /\ Len(alts) \in Nat
      /\ \A a \in 1 .. Len(alts) : alts[a] \in Alternatives(slot)
      /\ \A s \in Alternatives(slot) : \E a \in 1 .. Len(alts) : alts[a] = s
    <2>1. NumWays - 1 \in Nat
        BY WaysAssumption
    <2>2. /\ alts \in Seq(Slots) /\ Len(alts) = NumWays - 1
          /\ \A a \in 1 .. (NumWays - 1) :
                alts[a] \in {Home(tag[slot], w) : w \in Ways \ {slot[2]}}
          /\ \A w \in Ways \ {slot[2]} :
                \E a \in 1 .. (NumWays - 1) : alts[a] = Home(tag[slot], w)
        BY <1>2, AlternativesListed
    <2> HIDE DEF alts
    <2> QED
        BY <2>1, <2>2 DEF Alternatives
<1> HIDE DEF alts
<1>4. n \in Nat /\ n <= room /\ n <= Len(alts) /\ (n < room => n = Len(alts))
    BY <1>1, <1>3
<1> HIDE DEF n
<1>5. /\ new \in Seq(Node) /\ Len(new) = n
      /\ \A a \in 1 .. n : new[a] = [slot |-> alts[a], parentIdx |-> fi]
    BY <1>1, <1>3, <1>4 DEF Node
<1>6. candidates' = candidates \o new
    BY DEF ExpandNode, n, alts
<1> HIDE DEF new
<1>7. /\ candidates' \in Seq(Node)
      /\ Len(candidates') = Len(candidates) + n
      /\ \A k \in 1 .. Len(candidates) : candidates'[k] = candidates[k]
      /\ \A k \in (Len(candidates) + 1) .. Len(candidates') :
            candidates'[k] = new[k - Len(candidates)]
    <2>1. candidates \o new \in Seq(Node) /\ Len(candidates \o new) = Len(candidates) + n
        BY <1>1, <1>5, ConcatProperties
    <2>2. \A k \in 1 .. (Len(candidates) + n) :
             (candidates \o new)[k] = IF k <= Len(candidates) THEN candidates[k]
                                      ELSE new[k - Len(candidates)]
        BY <1>1, <1>5, ConcatProperties
    <2> QED
        BY <1>1, <1>4, <1>6, <2>1, <2>2
<1>8. \A k \in (Len(candidates) + 1) .. Len(candidates') :
        Parent(k)' = fi /\ Slot(k)' \in Alternatives(Slot(fi))
    <2> SUFFICES ASSUME NEW k \in (Len(candidates) + 1) .. Len(candidates')
                 PROVE  Parent(k)' = fi /\ Slot(k)' \in Alternatives(Slot(fi))
        OBVIOUS
    <2>1. k - Len(candidates) \in 1 .. n /\ k - Len(candidates) \in 1 .. Len(alts)
        BY <1>1, <1>3, <1>4, <1>7
    <2>2. candidates'[k] = [slot |-> alts[k - Len(candidates)], parentIdx |-> fi]
        BY <1>5, <1>7, <2>1
    <2> QED
        BY <1>3, <2>1, <2>2 DEF Parent, Slot
<1>9. ASSUME Len(candidates') < NumCandidates, NEW s \in Alternatives(Slot(fi))
      PROVE  Listed(s, Len(candidates))'
    <2>1. n = Len(alts)
        BY <1>1, <1>4, <1>7, <1>9
    <2>2. PICK a \in 1 .. n : alts[a] = s
        BY <1>3, <1>9, <2>1 DEF Slot
    <2>3. /\ Len(candidates) + a \in (Len(candidates) + 1) .. Len(candidates')
          /\ (Len(candidates) + a) - Len(candidates) = a
        BY <1>1, <1>4, <1>7, <2>2
    <2>4. candidates'[Len(candidates) + a].slot = s
        BY <1>5, <1>7, <2>2, <2>3
    <2>5. Len(candidates) + a \in 1 .. Len(candidates')
        BY <1>1, <2>3
    <2> QED
        BY <2>4, <2>5 DEF Listed, Slot
<1>10. isValid(Slot(fi)) /\ Slot(fi) \in Slots
    BY <1>1 DEF Slot
<1>11. Len(candidates) <= Len(candidates') /\ Len(candidates') <= NumCandidates
    BY <1>1, <1>4, <1>7
<1> QED
    BY <1>1, <1>7, <1>8, <1>9, <1>10, <1>11

LEMMA TagsAside ==
    ASSUME TagInv, UNCHANGED <<tag, dirty>>,
           pc' # "idle" => \A s \in Slots : tag[s] # req'
    PROVE  TagInv'
<1> USE DEF isValid
<1>1. Placement' /\ NoDuplicateLine' /\ CleanWhenInvalid'
    BY DEF TagInv, Placement, NoDuplicateLine, CleanWhenInvalid
<1>2. RequestIsAbsent'
    BY DEF RequestIsAbsent
<1> QED
    BY <1>1, <1>2 DEF TagInv

LEMMA TreeAside ==
    ASSUME NodesLegal, BreadthFirst, UNCHANGED <<tag, candidates, req>>
    PROVE  NodesLegal' /\ BreadthFirst'
<1> USE DEF Slot, Parent, Alternatives, Listed, isValid
<1>1. NodesLegal'
    BY DEF NodesLegal
<1>2. BreadthFirst'
    BY DEF BreadthFirst
<1> QED
    BY <1>1, <1>2

(***************************************************************************)
(* The steps that start a request.                                         *)
(***************************************************************************)
LEMMA FindFreeHomeKeeps ==
    ASSUME IInv, NEW l \in Line, FindFreeHome(l)
    PROVE  IInv'
<1>1. PICK w \in Ways : ~isValid(Home(l, w)) /\ pendingSwapChain' = <<Home(l, w)>>
    BY DEF FindFreeHome
<1>2. Home(l, w) \in Slots /\ Home(l, w) \in Homes(l)
    BY HomeType DEF Homes
<1>3. TypeOK'
    BY <1>1, <1>2, LineAssumption DEF IInv, TypeOK, FindFreeHome, Phases, walk
<1>4. TagInv'
    <2>1. \A s \in Slots : tag[s] # l
        BY MissIsAbsent DEF IInv, TagInv, FindFreeHome
    <2> QED
        BY <2>1, TagsAside DEF IInv, FindFreeHome
<1>5. WalkInv' /\ ChainInv' /\ AtRest'
    BY DEF FindFreeHome, walk, IInv, AtRest, WalkInv, Walking, Searching, ChainInv
<1>6. ExecInv'
    BY <1>1, <1>2, WalkAssumption
       DEF FindFreeHome, ExecInv, IsInjective, Linked, isValid
<1> QED
    BY <1>3, <1>4, <1>5, <1>6 DEF IInv

LEMMA SeedWalkKeeps ==
    ASSUME IInv, NEW l \in Line, SeedWalk(l)
    PROVE  IInv'
<1>0. NumWays \in Nat /\ NumWays >= 2 /\ Ways = 0 .. (NumWays - 1)
    BY WaysAssumption DEF Ways
<1>1. /\ candidates' \in Seq(Node) /\ Len(candidates') = NumWays
      /\ \A n \in 1 .. NumWays :
            Slot(n)' = Home(l, n - 1) /\ Parent(n)' = 0 /\ n - 1 \in Ways
    <2>1. \A n \in 1 .. NumWays : n - 1 \in Ways
        BY <1>0
    <2>2. candidates' = [n \in 1 .. NumWays |-> [slot |-> Home(l, n - 1), parentIdx |-> 0]]
        BY DEF SeedWalk
    <2>3. \A n \in 1 .. NumWays : [slot |-> Home(l, n - 1), parentIdx |-> 0] \in Node
        BY <2>1, HomeType DEF Node
    <2> QED
        BY <1>0, <2>1, <2>2, <2>3 DEF Slot, Parent
<1>2. TypeOK'
    <2>1. \A n \in DOMAIN candidates' : candidates'[n].parentIdx < n
        BY <1>0, <1>1 DEF Parent
    <2>2. idx' = idx /\ idx' \in 0 .. Len(candidates')
        BY <1>0, <1>1 DEF SeedWalk, IInv, AtRest, Walking, Searching
    <2> QED
        BY <1>0, <1>1, <2>1, <2>2, LineAssumption, WalkAssumption
           DEF IInv, TypeOK, SeedWalk, Phases
<1>3. TagInv'
    <2>1. \A s \in Slots : tag[s] # l
        BY MissIsAbsent DEF IInv, TagInv, SeedWalk
    <2> QED
        BY <2>1, TagsAside DEF IInv, SeedWalk
<1>4. WalkInv'
    <2>1. \A w \in Ways : isValid(Home(req, w))'
        BY DEF SeedWalk, isValid, Home
    <2>2. NodesLegal'
        BY <1>1 DEF SeedWalk, NodesLegal, Homes, Home
    <2>3. BreadthFirst'
        BY <1>1 DEF BreadthFirst
    <2>4. PassedAreFull'
        BY DEF SeedWalk, PassedAreFull
    <2>5. \E d \in [1 .. Len(candidates') -> Nat] : IsDepth(d)'
        <3> DEFINE d == [n \in 1 .. NumWays |-> 1]
        <3>1. d \in [1 .. NumWays -> Nat] /\ \A n \in 1 .. NumWays : d[n] = 1
            OBVIOUS
        <3> HIDE DEF d
        <3>2. IsDepth(d)'
            BY <1>0, <1>1, <3>1, WalkAssumption DEF IsDepth, SeedWalk
        <3> QED
            BY <1>1, <3>1, <3>2
    <2>6. pendingSwapChain' = <<>> /\ fi' \in Nat \ {0}
        BY DEF SeedWalk
    <2> QED
        BY <2>1, <2>2, <2>3, <2>4, <2>5, <2>6 DEF WalkInv
<1>5. ChainInv' /\ ExecInv' /\ AtRest'
    BY DEF SeedWalk, ChainInv, ExecInv, AtRest, Walking, Searching
<1> QED
    BY <1>2, <1>3, <1>4, <1>5 DEF IInv

(***************************************************************************)
(* The steps on a block that a lookup finds.                               *)
(***************************************************************************)
LEMMA WriteHitKeeps ==
    ASSUME IInv, NEW l \in Written, WriteHit(l)
    PROVE  IInv'
<1> DEFINE s == findBlock(l)
<1>1. l \in Line /\ s \in Slots /\ tag[s] = l
    BY FoundBlock, LineAssumption DEF IInv, TagInv, WriteHit
<1> HIDE DEF s
<1>3. dirty' = [dirty EXCEPT ![s] = TRUE] /\ owed' = owed \cup {l}
    BY DEF WriteHit, s
<1>4. UNCHANGED <<tag, pc, req, candidates, fi, fringeEnd, level, idx, pendingSwapChain, i>>
    BY DEF WriteHit, walk
<1>5. TypeOK'
    BY <1>1, <1>3, <1>4 DEF IInv, TypeOK, Phases
<1>6. TagInv'
    <2>1. Placement' /\ NoDuplicateLine' /\ RequestIsAbsent'
        BY <1>4 DEF IInv, TagInv, Placement, NoDuplicateLine, RequestIsAbsent, isValid
    <2>2. CleanWhenInvalid'
        BY <1>1, <1>3, <1>4, LineAssumption
           DEF IInv, TypeOK, TagInv, CleanWhenInvalid, isValid
    <2> QED
        BY <2>1, <2>2 DEF TagInv
<1>7. WalkInv' /\ ChainInv' /\ ExecInv' /\ AtRest'
    BY <1>4 DEF WriteHit, IInv, WalkInv, ChainInv, ExecInv, AtRest, Walking, Searching
<1> QED
    BY <1>5, <1>6, <1>7 DEF IInv

LEMMA InvalidateKeeps ==
    ASSUME TypeOK, TagInv, NEW s \in Slots, invalidate(s),
           req' = req, pc' # "idle" => pc # "idle"
    PROVE  /\ TagInv' /\ dirty' \in [Slots -> BOOLEAN]
           /\ tag' \in [Slots -> Line \cup {NoLine}]
           /\ \A t \in Slots : tag'[t] = IF t = s THEN NoLine ELSE tag[t]
<1>1. /\ tag \in [Slots -> Line \cup {NoLine}] /\ dirty \in [Slots -> BOOLEAN]
      /\ req \in Line \cup {NoLine}
      /\ pc # "idle" => req # NoLine
    BY DEF TypeOK
<1>2. /\ \A t \in Slots : tag'[t] = IF t = s THEN NoLine ELSE tag[t]
      /\ \A t \in Slots : dirty'[t] = IF t = s THEN FALSE ELSE dirty[t]
      /\ tag' \in [Slots -> Line \cup {NoLine}] /\ dirty' \in [Slots -> BOOLEAN]
    BY <1>1 DEF invalidate
<1>3. Placement'
    BY <1>2 DEF TagInv, Placement, isValid
<1>4. NoDuplicateLine'
    BY <1>2 DEF TagInv, NoDuplicateLine, isValid
<1>5. RequestIsAbsent'
    BY <1>1, <1>2 DEF TagInv, RequestIsAbsent
<1>6. CleanWhenInvalid'
    BY <1>2 DEF TagInv, CleanWhenInvalid, isValid
<1> QED
    BY <1>1, <1>2, <1>3, <1>4, <1>5, <1>6 DEF TagInv

LEMMA SnoopInvalidateKeeps ==
    ASSUME IInv, NEW l \in Line, SnoopInvalidate(l)
    PROVE  IInv'
<1>1. findBlock(l) \in Slots /\ isValid(findBlock(l))
    BY FoundBlock, LineAssumption DEF IInv, TagInv, SnoopInvalidate, isValid
<1>2. UNCHANGED <<pc, req, candidates, fi, fringeEnd, level, idx, pendingSwapChain, i>>
    BY DEF SnoopInvalidate, walk
<1>3. /\ TagInv' /\ dirty' \in [Slots -> BOOLEAN]
      /\ tag' \in [Slots -> Line \cup {NoLine}]
    BY <1>1, <1>2, InvalidateKeeps DEF IInv, SnoopInvalidate
<1>3a. owed' \subseteq owed
    BY DEF SnoopInvalidate, writeback
<1>4. TypeOK'
    BY <1>2, <1>3, <1>3a DEF IInv, TypeOK
<1>5. WalkInv' /\ ChainInv' /\ ExecInv' /\ AtRest'
    BY <1>2 DEF SnoopInvalidate, IInv, WalkInv, ChainInv, ExecInv, AtRest, Walking, Searching
<1> QED
    BY <1>3, <1>4, <1>5 DEF IInv

(***************************************************************************)
(* The steps after the walk: the eviction, the chain and the line itself.  *)
(***************************************************************************)
LEMMA EvictVictimKeeps ==
    ASSUME IInv, EvictVictim
    PROVE  IInv'
<1> DEFINE s == Head(pendingSwapChain)
<1>1. /\ pendingSwapChain \in Seq(Slots) /\ Len(pendingSwapChain) \in 1 .. WalkLevels
      /\ s = pendingSwapChain[1] /\ s \in Slots /\ isValid(s) /\ i = 2
      /\ IsInjective(pendingSwapChain) /\ Linked(pendingSwapChain, 2)
      /\ pendingSwapChain[Len(pendingSwapChain)] \in Homes(req)
    BY WalkAssumption DEF EvictVictim, IInv, TypeOK, ExecInv
<1>2. /\ pc = "evict" /\ pc' = "insert"
      /\ UNCHANGED <<req, candidates, fi, fringeEnd, level, idx, pendingSwapChain, i>>
    BY DEF EvictVictim, walk
<1>3. /\ TagInv' /\ dirty' \in [Slots -> BOOLEAN]
      /\ tag' \in [Slots -> Line \cup {NoLine}]
      /\ \A t \in Slots : tag'[t] = IF t = s THEN NoLine ELSE tag[t]
    BY <1>1, <1>2, InvalidateKeeps DEF IInv, EvictVictim
<1> HIDE DEF s
<1>3a. owed' \subseteq owed
    BY DEF EvictVictim, writeback
<1>4. TypeOK'
    BY <1>2, <1>3, <1>3a DEF IInv, TypeOK, Phases
<1>5. ExecInv'
    <2>1. \A n \in 2 .. Len(pendingSwapChain) :
            pendingSwapChain[n] \in Slots /\ pendingSwapChain[n] # s
        BY <1>1 DEF IsInjective
    <2>2. Linked(pendingSwapChain, 2)'
        BY <1>1, <1>2, <1>3, <2>1 DEF Linked, isValid
    <2>3. ~isValid(pendingSwapChain[i - 1])'
        BY <1>1, <1>2, <1>3 DEF isValid
    <2> QED
        BY <1>1, <1>2, <2>2, <2>3 DEF ExecInv
<1>6. WalkInv' /\ ChainInv' /\ AtRest'
    BY <1>2 DEF IInv, WalkInv, ChainInv, AtRest, Walking, Searching
<1> QED
    BY <1>3, <1>4, <1>5, <1>6 DEF IInv

LEMMA RefuseEvictionKeeps ==
    ASSUME IInv, RefuseEviction
    PROVE  IInv'
<1>1. /\ pc = "evict" /\ pc' = "idle" /\ req' = NoLine /\ i' = 0
      /\ UNCHANGED <<tag, dirty, owed, candidates, fi, fringeEnd, level, idx,
                     pendingSwapChain>>
    BY DEF RefuseEviction, walk
<1>2. TypeOK'
    BY <1>1 DEF IInv, TypeOK, Phases
<1>3. TagInv'
    BY <1>1, TagsAside DEF IInv
<1>4. WalkInv' /\ ChainInv' /\ ExecInv' /\ AtRest'
    BY <1>1 DEF IInv, WalkInv, ChainInv, ExecInv, AtRest, Walking, Searching
<1> QED
    BY <1>2, <1>3, <1>4 DEF IInv

\* A block that moves to a free home of its line is the same block there.
LEMMA RelocationKeeps ==
    ASSUME TypeOK, TagInv, NEW src \in Slots, NEW dst \in Slots,
           isValid(src), ~isValid(dst), dst \in Homes(tag[src]), doMoveBlock(src, dst),
           req' = req, pc' # "idle" => pc # "idle"
    PROVE  /\ TagInv' /\ dirty' \in [Slots -> BOOLEAN]
           /\ tag' \in [Slots -> Line \cup {NoLine}]
           /\ \A t \in Slots : tag'[t] = IF t = src THEN NoLine
                                         ELSE IF t = dst THEN tag[src] ELSE tag[t]
<1>1. /\ tag \in [Slots -> Line \cup {NoLine}] /\ dirty \in [Slots -> BOOLEAN]
      /\ src # dst
      /\ tag[src] \in Line /\ tag[dst] = NoLine
    BY DEF TypeOK, isValid
<1>2. /\ \A t \in Slots : tag'[t] = IF t = src THEN NoLine
                                    ELSE IF t = dst THEN tag[src] ELSE tag[t]
      /\ \A t \in Slots : dirty'[t] = IF t = src THEN FALSE
                                      ELSE IF t = dst THEN dirty[src] ELSE dirty[t]
      /\ tag' \in [Slots -> Line \cup {NoLine}] /\ dirty' \in [Slots -> BOOLEAN]
    BY <1>1 DEF doMoveBlock
<1>3. Placement'
    BY <1>1, <1>2 DEF TagInv, Placement, isValid, Homes, Home
<1>4. NoDuplicateLine'
    BY <1>1, <1>2 DEF TagInv, NoDuplicateLine, isValid
<1>5. RequestIsAbsent'
    <2>1. pc # "idle" => req # NoLine
        BY DEF TypeOK
    <2> QED
        BY <1>2, <2>1 DEF TagInv, RequestIsAbsent
<1>6. CleanWhenInvalid'
    BY <1>1, <1>2 DEF TagInv, CleanWhenInvalid, isValid
<1> QED
    BY <1>2, <1>3, <1>4, <1>5, <1>6 DEF TagInv

LEMMA MoveBlockKeeps ==
    ASSUME IInv, MoveBlock
    PROVE  IInv'
<1> DEFINE src == pendingSwapChain[i]
           dst == pendingSwapChain[i - 1]
<1>1. /\ pc = "insert" /\ i <= Len(pendingSwapChain)
      /\ UNCHANGED <<owed, pc, req, candidates, fi, fringeEnd, level, idx, pendingSwapChain>>
      /\ i' = i + 1
    BY DEF MoveBlock, walk
<1>2. /\ pendingSwapChain \in Seq(Slots) /\ Len(pendingSwapChain) \in 1 .. WalkLevels
      /\ i \in 2 .. Len(pendingSwapChain)
      /\ IsInjective(pendingSwapChain) /\ Linked(pendingSwapChain, i)
      /\ ~isValid(dst)
      /\ pendingSwapChain[Len(pendingSwapChain)] \in Homes(req)
    BY <1>1, WalkAssumption DEF IInv, TypeOK, ExecInv
<1>3. src \in Slots /\ dst \in Slots /\ isValid(src) /\ dst \in Homes(tag[src])
    BY <1>2, WalkAssumption DEF Linked
<1>4. doMoveBlock(src, dst)
    BY <1>3 DEF MoveBlock
<1>5. /\ TagInv' /\ dirty' \in [Slots -> BOOLEAN]
      /\ tag' \in [Slots -> Line \cup {NoLine}]
      /\ \A t \in Slots : tag'[t] = IF t = src THEN NoLine
                                    ELSE IF t = dst THEN tag[src] ELSE tag[t]
    BY <1>1, <1>2, <1>3, <1>4, RelocationKeeps DEF IInv
<1>6. TypeOK'
    BY <1>1, <1>2, <1>5, WalkAssumption DEF IInv, TypeOK
<1>7. ExecInv'
    <2>1. \A n \in (i + 1) .. Len(pendingSwapChain) :
            /\ pendingSwapChain[n] \in Slots
            /\ pendingSwapChain[n] # src /\ pendingSwapChain[n] # dst
        BY <1>2, WalkAssumption DEF IsInjective
    <2> HIDE DEF dst
    <2>2. Linked(pendingSwapChain, i)'
        BY <1>1, <1>2, <1>5, <2>1, WalkAssumption DEF Linked, isValid, Homes, Home
    <2>3. ~isValid(pendingSwapChain[i - 1])'
        BY <1>1, <1>2, <1>3, <1>5, WalkAssumption DEF isValid
    <2>4. i' \in 2 .. (Len(pendingSwapChain) + 1)
        BY <1>1, <1>2, WalkAssumption
    <2>5. /\ Homes(req)' = Homes(req) /\ IsInjective(pendingSwapChain)'
          /\ pc' = "insert"
        BY <1>1, <1>2 DEF Homes, Home, IsInjective
    <2> QED
        BY <1>1, <1>2, <2>2, <2>3, <2>4, <2>5 DEF ExecInv
<1>8. WalkInv' /\ ChainInv' /\ AtRest'
    BY <1>1 DEF IInv, WalkInv, ChainInv, AtRest, Walking, Searching
<1> QED
    BY <1>5, <1>6, <1>7, <1>8 DEF IInv

LEMMA InsertLineKeeps ==
    ASSUME IInv, InsertLine
    PROVE  IInv'
<1> DEFINE s == Last(pendingSwapChain)
<1>1. /\ pc = "insert" /\ i > Len(pendingSwapChain)
      /\ UNCHANGED <<dirty, owed, candidates, fi, fringeEnd, level, idx>>
      /\ pendingSwapChain' = <<>> /\ pc' = "idle" /\ req' = NoLine /\ i' = 0
      /\ tag' = [tag EXCEPT ![s] = req]
    BY DEF InsertLine, walk
<1>2. /\ pendingSwapChain \in Seq(Slots) /\ Len(pendingSwapChain) \in 1 .. WalkLevels
      /\ i = Len(pendingSwapChain) + 1
      /\ s = pendingSwapChain[Len(pendingSwapChain)] /\ s \in Homes(req)
      /\ ~isValid(s)
    BY <1>1, WalkAssumption DEF IInv, TypeOK, ExecInv, Last
<1>3. s \in Slots /\ req \in Line /\ tag \in [Slots -> Line \cup {NoLine}]
      /\ dirty \in [Slots -> BOOLEAN] /\ owed \subseteq Written
    BY <1>1, <1>2, WalkAssumption DEF IInv, TypeOK
<1> HIDE DEF s
<1>4. /\ \A t \in Slots : tag'[t] = IF t = s THEN req ELSE tag[t]
      /\ tag' \in [Slots -> Line \cup {NoLine}]
    BY <1>1, <1>3
<1>5. TypeOK'
    BY <1>1, <1>4 DEF IInv, TypeOK, Phases
<1>6. TagInv'
    <2>1. Placement'
        BY <1>2, <1>4 DEF IInv, TagInv, Placement, isValid, Homes, Home
    <2>2. NoDuplicateLine'
        BY <1>1, <1>4 DEF IInv, TagInv, NoDuplicateLine, RequestIsAbsent, isValid
    <2>3. RequestIsAbsent'
        BY <1>1 DEF RequestIsAbsent
    <2>4. CleanWhenInvalid'
        BY <1>1, <1>3, <1>4, LineAssumption DEF IInv, TagInv, CleanWhenInvalid, isValid
    <2> QED
        BY <2>1, <2>2, <2>3, <2>4 DEF TagInv
<1>7. WalkInv' /\ ChainInv' /\ ExecInv' /\ AtRest'
    BY <1>1 DEF IInv, WalkInv, ChainInv, ExecInv, AtRest, Walking, Searching
<1> QED
    BY <1>5, <1>6, <1>7 DEF IInv

(***************************************************************************)
(* The steps of the walk.                                                  *)
(***************************************************************************)
LEMMA StartLevelKeeps ==
    ASSUME IInv, StartLevel
    PROVE  IInv'
<1>1. /\ pc = "level" /\ pc' \in {"walk", "select"}
      /\ pc' = "walk" => Len(candidates) < NumCandidates /\ AllValid /\ level < WalkLevels
      /\ UNCHANGED <<tag, dirty, owed, req, candidates, fi, fringeEnd, level, idx,
                     pendingSwapChain, i>>
    BY DEF StartLevel, walk
<1>2. TypeOK'
    BY <1>1 DEF IInv, TypeOK, Phases
<1>3. TagInv'
    BY <1>1, TagsAside DEF IInv, TagInv, RequestIsAbsent
<1>4. WalkInv'
    <2>1. /\ \A w \in Ways : isValid(Home(req, w))
          /\ NodesLegal /\ BreadthFirst /\ PassedAreFull
          /\ pendingSwapChain = <<>> /\ fi \in Nat \ {0}
        BY <1>1 DEF IInv, WalkInv, Walking, Searching
    <2>2. PICK d \in [1 .. Len(candidates) -> Nat] : IsDepth(d)
        BY <1>1 DEF IInv, WalkInv, Walking, Searching
    <2>3. NodesLegal' /\ BreadthFirst'
        BY <1>1, <2>1, TreeAside
    <2>4. PassedAreFull'
        BY <1>1, <2>1 DEF PassedAreFull, Full, Listed, Alternatives, Slot, Home
    <2>5. IsDepth(d)'
        <3>1. level \in Nat /\ WalkLevels \in Nat /\ fringeEnd \in 0 .. Len(candidates)
              /\ Len(candidates) \in Nat
            BY WalkAssumption DEF IInv, TypeOK
        <3> QED
            BY <1>1, <2>2, <3>1 DEF IsDepth, Parent
    <2> QED
        BY <1>1, <2>1, <2>2, <2>3, <2>4, <2>5 DEF WalkInv, isValid, Home
<1>5. ChainInv' /\ ExecInv' /\ AtRest'
    BY <1>1 DEF ChainInv, ExecInv, AtRest, Walking, Searching
<1> QED
    BY <1>2, <1>3, <1>4, <1>5 DEF IInv

LEMMA EndLevelKeeps ==
    ASSUME IInv, EndLevel
    PROVE  IInv'
<1>1. /\ pc = "walk" /\ pc' \in {"level", "select"}
      /\ fi' = fringeEnd + 1 /\ fringeEnd' = Len(candidates) /\ level' = level + 1
      /\ UNCHANGED <<tag, dirty, owed, req, candidates, idx, pendingSwapChain, i>>
    BY DEF EndLevel
<1>2. /\ candidates \in Seq(Node) /\ Len(candidates) \in Nat
      /\ level \in Nat /\ fi \in Nat /\ fringeEnd \in 0 .. Len(candidates)
    BY DEF IInv, TypeOK
<1>3. TypeOK'
    BY <1>1, <1>2 DEF IInv, TypeOK, Phases
<1>4. TagInv'
    BY <1>1, TagsAside DEF IInv, TagInv, RequestIsAbsent
<1>5. WalkInv'
    <2>1. /\ \A w \in Ways : isValid(Home(req, w))
          /\ NodesLegal /\ BreadthFirst /\ PassedAreFull
          /\ pendingSwapChain = <<>> /\ fi \in Nat \ {0}
        BY <1>1 DEF IInv, WalkInv, Walking, Searching
    <2>2. PICK d \in [1 .. Len(candidates) -> Nat] : IsDepth(d)
        BY <1>1 DEF IInv, WalkInv, Walking, Searching
    <2>3. NodesLegal' /\ BreadthFirst'
        BY <1>1, <2>1, TreeAside
    <2>4. PassedAreFull'
        <3> SUFFICES ASSUME AllValid, Len(candidates) < NumCandidates,
                            NEW a \in 1 .. fringeEnd
                     PROVE  Full(a)
            BY <1>1, <1>2
               DEF PassedAreFull, AllValid, isValid, Full, Listed, Alternatives, Slot, Home
        <3>1. ~InFringe
            BY DEF EndLevel
        <3>2. fi > fringeEnd
            BY <1>2, <2>1, <3>1 DEF InFringe, AllValid
        <3>3. a \in 1 .. (fi - 1)
            BY <1>2, <3>2
        <3> QED
            BY <1>1, <2>1, <3>3 DEF PassedAreFull
    <2>5. IsDepth(d)'
        BY <1>1, <1>2, <2>2, WalkAssumption DEF IsDepth, Parent
    <2>6. fi' \in Nat \ {0}
        BY <1>1, <1>2
    <2> QED
        BY <1>1, <2>1, <2>2, <2>3, <2>4, <2>5, <2>6 DEF WalkInv, isValid, Home
<1>6. ChainInv' /\ ExecInv' /\ AtRest'
    BY <1>1 DEF ChainInv, ExecInv, AtRest, Walking, Searching
<1> QED
    BY <1>3, <1>4, <1>5, <1>6 DEF IInv

LEMMA ExpandNodeKeeps ==
    ASSUME IInv, ExpandNode
    PROVE  IInv'
<1>1. /\ pc = "walk" /\ pc' = "walk" /\ InFringe /\ fi' = fi + 1
      /\ UNCHANGED <<tag, dirty, owed, req, fringeEnd, level, idx, pendingSwapChain, i>>
    BY DEF ExpandNode
<1>2. /\ Len(candidates) \in Nat /\ level \in Nat /\ fi \in Nat
      /\ fringeEnd \in 0 .. Len(candidates) /\ idx \in 0 .. Len(candidates)
      /\ \A n \in 1 .. Len(candidates) : Parent(n) \in Nat /\ Parent(n) < n
    <2>1. candidates \in Seq(Node) /\ \A n \in DOMAIN candidates : Parent(n) < n
        BY DEF IInv, TypeOK, Parent
    <2>2. \A n \in 1 .. Len(candidates) : candidates[n] \in Node
        BY <2>1
    <2> QED
        BY <2>1, <2>2 DEF IInv, TypeOK, Node, Parent
<1>3. /\ \A w \in Ways : isValid(Home(req, w))
      /\ NodesLegal /\ BreadthFirst /\ PassedAreFull
      /\ pendingSwapChain = <<>> /\ fi # 0
    BY <1>1 DEF IInv, WalkInv, Walking, Searching
<1>4. PICK d \in [1 .. Len(candidates) -> Nat] : IsDepth(d)
    BY <1>1 DEF IInv, WalkInv, Walking, Searching
<1>5. /\ Slot(fi) \in Slots /\ isValid(Slot(fi))
      /\ fi \in 1 .. Len(candidates)
      /\ candidates' \in Seq(Node)
      /\ Len(candidates) <= Len(candidates') /\ Len(candidates') <= NumCandidates
      /\ \A k \in 1 .. Len(candidates) : candidates'[k] = candidates[k]
      /\ \A k \in (Len(candidates) + 1) .. Len(candidates') :
            Parent(k)' = fi /\ Slot(k)' \in Alternatives(Slot(fi))
      /\ Len(candidates') < NumCandidates =>
            \A s \in Alternatives(Slot(fi)) : Listed(s, Len(candidates))'
    BY <1>3, ExpandShape DEF IInv, TagInv
<1>6. /\ Len(candidates') \in Nat
      /\ \A k \in 1 .. Len(candidates) : Slot(k)' = Slot(k) /\ Parent(k)' = Parent(k)
      /\ \A k \in 1 .. Len(candidates) : Alternatives(Slot(k))' = Alternatives(Slot(k))
    BY <1>1, <1>5 DEF Slot, Parent, Alternatives, Home
<1>7. Len(candidates) < NumCandidates /\ fi <= fringeEnd
    BY <1>1 DEF InFringe
\* What was listed stays listed.
<1>8. \A n \in 0 .. Len(candidates) : \A k \in n .. Len(candidates') : \A s :
        Listed(s, n) => (\E j \in 1 .. k : Slot(j)' = s)
    BY <1>2, <1>6 DEF Listed
<1>9. TypeOK'
    <2>1. \A n \in 1 .. Len(candidates') : Parent(n)' < n
        BY <1>2, <1>5, <1>6
    <2>2. \A n \in DOMAIN candidates' : candidates'[n].parentIdx < n
        BY <1>5, <2>1 DEF Parent
    <2> QED
        BY <1>1, <1>2, <1>5, <1>6, <2>2 DEF IInv, TypeOK
<1>10. TagInv'
    BY <1>1, TagsAside DEF IInv, TagInv, RequestIsAbsent
<1>11. NodesLegal'
    <2> SUFFICES ASSUME NEW n \in 1 .. Len(candidates')
                 PROVE  IF Parent(n)' = 0
                        THEN Slot(n)' \in Homes(req)
                        ELSE /\ isValid(Slot(Parent(n)))'
                             /\ Slot(n)' \in Alternatives(Slot(Parent(n)))'
        BY <1>1 DEF NodesLegal, Homes, Home
    <2>1. CASE n \in 1 .. Len(candidates)
        <3>1. CASE Parent(n) = 0
            BY <1>3, <1>6, <2>1, <3>1 DEF NodesLegal
        <3>2. CASE Parent(n) # 0
            <4>1. Parent(n) \in 1 .. Len(candidates)
                BY <1>2, <2>1, <3>2
            <4>2. isValid(Slot(Parent(n))) /\ Slot(n) \in Alternatives(Slot(Parent(n)))
                BY <1>3, <2>1, <3>2 DEF NodesLegal
            <4>3. Slot(Parent(n))' = Slot(Parent(n))
                BY <1>6, <2>1, <4>1 DEF Slot
            <4> QED
                BY <1>1, <1>6, <2>1, <3>2, <4>2, <4>3 DEF isValid, Alternatives, Home
        <3> QED
            BY <3>1, <3>2
    <2>2. CASE n \in (Len(candidates) + 1) .. Len(candidates')
        <3>1. Parent(n)' = fi /\ Slot(n)' \in Alternatives(Slot(fi))
            BY <1>5, <2>2
        <3>2. Slot(Parent(n))' = Slot(fi)
            BY <1>5, <1>6, <3>1 DEF Slot
        <3> QED
            BY <1>1, <1>3, <1>5, <3>1, <3>2 DEF isValid, Alternatives, Home
    <2> QED
        BY <1>2, <1>6, <2>1, <2>2
<1>12. BreadthFirst'
    <2> SUFFICES ASSUME NEW n \in 1 .. Len(candidates'), NEW a \in 1 .. (Parent(n)' - 1),
                        NEW s \in Alternatives(Slot(a))'
                 PROVE  \E j \in 1 .. (n - 1) : Slot(j)' = s
        BY DEF BreadthFirst, Listed
    <2>1. CASE n \in 1 .. Len(candidates)
        <3>1. a \in 1 .. Len(candidates) /\ a \in 1 .. (Parent(n) - 1)
            BY <1>2, <1>6, <2>1
        <3>2. Listed(s, n - 1)
            BY <1>3, <1>6, <2>1, <3>1 DEF BreadthFirst
        <3>3. n - 1 \in 0 .. Len(candidates) /\ n - 1 \in (n - 1) .. Len(candidates')
            BY <1>2, <1>6, <2>1
        <3> QED
            BY <1>8, <3>2, <3>3
    <2>2. CASE n \in (Len(candidates) + 1) .. Len(candidates')
        <3>1. a \in 1 .. (fi - 1) /\ a \in 1 .. Len(candidates)
            BY <1>2, <1>5, <2>2
        <3>2. Listed(s, Len(candidates))
            BY <1>1, <1>3, <1>6, <1>7, <3>1 DEF PassedAreFull, Full
        <3>3. Len(candidates) \in 0 .. Len(candidates)
              /\ n - 1 \in Len(candidates) .. Len(candidates')
            BY <1>2, <1>6, <2>2
        <3> QED
            BY <1>8, <3>2, <3>3
    <2> QED
        BY <1>2, <1>6, <2>1, <2>2
<1>13. PassedAreFull'
    <2> SUFFICES ASSUME Len(candidates') < NumCandidates, NEW a \in 1 .. fi,
                        NEW s \in Alternatives(Slot(a))'
                 PROVE  \E j \in 1 .. Len(candidates') : Slot(j)' = s
        BY <1>1, <1>2 DEF PassedAreFull, Full, Listed
    <2>1. a \in 1 .. Len(candidates) /\ s \in Alternatives(Slot(a))
        BY <1>2, <1>5, <1>6
    <2>2. CASE a = fi
        BY <1>5, <2>1, <2>2 DEF Listed
    <2>3. CASE a # fi
        <3>1. a \in 1 .. (fi - 1)
            BY <1>2, <2>3
        <3>2. Listed(s, Len(candidates))
            BY <1>1, <1>3, <1>7, <2>1, <3>1 DEF PassedAreFull, Full
        <3>3. Len(candidates) \in 0 .. Len(candidates)
              /\ Len(candidates') \in Len(candidates) .. Len(candidates')
            BY <1>2, <1>5, <1>6
        <3> QED
            BY <1>8, <3>2, <3>3
    <2> QED
        BY <2>2, <2>3
<1>14. \E e \in [1 .. Len(candidates') -> Nat] : IsDepth(e)'
    <2>1. /\ d \in [1 .. Len(candidates) -> Nat] /\ d[fi] \in Nat /\ d[fi] <= level
          /\ level < WalkLevels /\ WalkLevels \in Nat
          /\ \A n \in 1 .. fringeEnd : d[n] <= level
          /\ \A n \in 1 .. Len(candidates) :
                /\ d[n] = IF Parent(n) = 0 THEN 1 ELSE d[Parent(n)] + 1
                /\ d[n] <= level + 1
        <3>1. /\ level < WalkLevels
              /\ \A n \in 1 .. fringeEnd : d[n] <= level
              /\ \A n \in 1 .. Len(candidates) :
                    /\ d[n] = IF Parent(n) = 0 THEN 1 ELSE d[Parent(n)] + 1
                    /\ d[n] <= level + 1
            BY <1>1, <1>4 DEF IsDepth
        <3>2. d[fi] \in Nat
            BY <1>5
        <3>3. fi \in 1 .. fringeEnd
            BY <1>2, <1>5, <1>7
        <3> QED
            BY <3>1, <3>2, <3>3, WalkAssumption
    <2>2. PICK e \in [1 .. Len(candidates') -> Nat] :
            /\ \A n \in 1 .. Len(candidates) : e[n] = d[n]
            /\ \A n \in (Len(candidates) + 1) .. Len(candidates') : e[n] = d[fi] + 1
        <3> DEFINE f == [n \in 1 .. Len(candidates') |->
                            IF n <= Len(candidates) THEN d[n] ELSE d[fi] + 1]
        <3>1. /\ f \in [1 .. Len(candidates') -> Nat]
              /\ \A n \in 1 .. Len(candidates) : f[n] = d[n]
              /\ \A n \in (Len(candidates) + 1) .. Len(candidates') : f[n] = d[fi] + 1
            BY <1>2, <1>5, <1>6, <2>1
        <3> HIDE DEF f
        <3> QED
            BY <3>1
    <2>3. \A n \in 1 .. Len(candidates') :
            /\ e[n] = IF Parent(n)' = 0 THEN 1 ELSE e[Parent(n)'] + 1
            /\ e[n] <= level + 1
        <3> SUFFICES ASSUME NEW n \in 1 .. Len(candidates')
                     PROVE  /\ e[n] = IF Parent(n)' = 0 THEN 1 ELSE e[Parent(n)'] + 1
                            /\ e[n] <= level + 1
            OBVIOUS
        <3>1. CASE n \in 1 .. Len(candidates)
            <4>1. Parent(n) # 0 => Parent(n) \in 1 .. Len(candidates)
                BY <1>2, <3>1
            <4> QED
                BY <1>6, <2>1, <2>2, <3>1, <4>1
        <3>2. CASE n \in (Len(candidates) + 1) .. Len(candidates')
            BY <1>2, <1>3, <1>5, <2>1, <2>2, <3>2
        <3> QED
            BY <1>2, <1>6, <3>1, <3>2
    <2>4. \A n \in 1 .. fringeEnd : e[n] <= level
        BY <1>2, <2>1, <2>2
    <2>5. \A n \in 1 .. Len(candidates') : e[n] <= WalkLevels
        <3>1. level + 1 <= WalkLevels
            BY <1>2, <2>1
        <3>2. \A n \in 1 .. Len(candidates') : e[n] \in Nat
            BY <2>2
        <3> QED
            BY <1>2, <2>1, <2>3, <3>1, <3>2
    <2>6. IsDepth(e)'
        BY <1>1, <2>1, <2>2, <2>3, <2>4, <2>5 DEF IsDepth
    <2> QED
        BY <2>2, <2>6
<1>15. WalkInv'
    <2>1. fi' \in Nat \ {0}
        BY <1>1, <1>2
    <2> QED
        BY <1>1, <1>3, <1>11, <1>12, <1>13, <1>14, <2>1 DEF WalkInv, isValid, Home
<1>16. ChainInv' /\ ExecInv' /\ AtRest'
    BY <1>1 DEF ChainInv, ExecInv, AtRest, Walking, Searching
<1> QED
    BY <1>9, <1>10, <1>15, <1>16 DEF IInv

(***************************************************************************)
(* The choice of the victim.                                               *)
(***************************************************************************)
LEMMA ChooseNodeKeeps ==
    ASSUME IInv, pc = "select", NEW n \in 1 .. Len(candidates), ChooseNode(n),
           FirstOfSlot(n), isValid(Slot(n)) => AllValid
    PROVE  IInv'
<1>1. /\ pc' = "chain" /\ idx' = n
      /\ UNCHANGED <<tag, dirty, owed, req, candidates, fi, fringeEnd, level,
                     pendingSwapChain, i>>
    BY DEF ChooseNode
<1>2. Len(candidates) \in Nat
    BY DEF IInv, TypeOK
<1>3. TypeOK'
    BY <1>1, <1>2 DEF IInv, TypeOK, Phases
<1>4. TagInv'
    BY <1>1, TagsAside DEF IInv, TagInv, RequestIsAbsent
<1>5. /\ \A w \in Ways : isValid(Home(req, w))
      /\ NodesLegal /\ BreadthFirst
      /\ pendingSwapChain = <<>>
    BY DEF IInv, WalkInv, Walking, Searching
<1>6. WalkInv'
    <2>1. PICK d \in [1 .. Len(candidates) -> Nat] : IsDepth(d)
        BY DEF IInv, WalkInv, Walking, Searching
    <2>2. IsDepth(d)'
        BY <1>1, <1>2, <1>5, <2>1 DEF IsDepth, Parent
    <2>3. NodesLegal' /\ BreadthFirst'
        BY <1>1, <1>5, TreeAside
    <2>4. PassedAreFull' /\ ~Searching'
        BY <1>1 DEF PassedAreFull, Searching
    <2> QED
        BY <1>1, <1>5, <2>1, <2>2, <2>3, <2>4 DEF WalkInv, isValid, Home
<1>7. ChainInv'
    <2>1. ChainStart'
        BY <1>1, <1>2 DEF ChainStart, FirstOfSlot, Slot, AllValid, isValid
    <2>2. ChainSoFar' /\ Linked(pendingSwapChain, 2)' /\ IsInjective(pendingSwapChain)'
        BY <1>1, <1>5 DEF ChainSoFar, Linked, IsInjective
    <2> QED
        BY <2>1, <2>2 DEF ChainInv
<1>8. ExecInv' /\ AtRest'
    BY <1>1 DEF ExecInv, AtRest, Walking
<1> QED
    BY <1>3, <1>4, <1>6, <1>7, <1>8 DEF IInv

LEMMA SelectFreeKeeps ==
    ASSUME IInv, SelectFree
    PROVE  IInv'
<1>1. candidates \in Seq(Node)
    BY DEF IInv, TypeOK
<1>2. PICK n \in 1 .. Len(candidates) :
        /\ ~isValid(Slot(n)) /\ \A m \in 1 .. (n - 1) : isValid(Slot(m))
        /\ ChooseNode(n)
    BY <1>1 DEF SelectFree, Slot
<1>3. FirstOfSlot(n)
    BY <1>2 DEF FirstOfSlot
<1> QED
    BY <1>2, <1>3, ChooseNodeKeeps DEF SelectFree

LEMMA SelectByPolicyKeeps ==
    ASSUME IInv, SelectByPolicy
    PROVE  IInv'
<1>1. candidates \in Seq(Node)
    BY DEF IInv, TypeOK
<1>2. PICK n \in 1 .. Len(candidates) :
        /\ \A m \in 1 .. (n - 1) : Slot(m) # Slot(n)
        /\ ChooseNode(n)
    BY <1>1 DEF SelectByPolicy, Slot
<1>3. FirstOfSlot(n)
    BY <1>2 DEF FirstOfSlot
<1> QED
    BY <1>2, <1>3, ChooseNodeKeeps DEF SelectByPolicy

(***************************************************************************)
(* The chain: its last slot is the first with that slot, the node that     *)
(* is appended is the parent, and so the first with its own.               *)
(***************************************************************************)
LEMMA ParentIsFirst ==
    ASSUME NodesLegal, BreadthFirst, NEW m \in 1 .. Len(candidates), FirstOfSlot(m),
           Parent(m) \in 1 .. (m - 1)
    PROVE  FirstOfSlot(Parent(m))
<1> SUFFICES ASSUME NEW k \in 1 .. (Parent(m) - 1), Slot(k) = Slot(Parent(m))
             PROVE  FALSE
    BY DEF FirstOfSlot
<1>1. Slot(m) \in Alternatives(Slot(k))
    BY DEF NodesLegal
<1>2. Listed(Slot(m), m - 1)
    BY <1>1 DEF BreadthFirst
<1> QED
    BY <1>2 DEF Listed, FirstOfSlot

LEMMA BuildChainKeeps ==
    ASSUME IInv, BuildChain
    PROVE  IInv'
<1> DEFINE c == pendingSwapChain
           s == Slot(idx)
           N == Len(candidates)
<1>1. /\ pc = "chain" /\ idx # 0
      /\ c' = Append(c, s) /\ idx' = Parent(idx)
      /\ UNCHANGED <<tag, dirty, owed, pc, req, candidates, fi, fringeEnd, level, i>>
    BY DEF BuildChain, Slot, Parent
<1>2. /\ candidates \in Seq(Node) /\ N \in Nat /\ c \in Seq(Slots) /\ Len(c) \in Nat
      /\ idx \in 1 .. N
      /\ \A n \in 1 .. N : Parent(n) \in Nat /\ Parent(n) < n /\ Slot(n) \in Slots
    <2>1. /\ candidates \in Seq(Node) /\ c \in Seq(Slots) /\ idx \in 0 .. N /\ N \in Nat
          /\ Len(c) \in Nat /\ \A n \in 1 .. N : Parent(n) < n
        BY DEF IInv, TypeOK, Parent
    <2>2. \A n \in 1 .. N : candidates[n] \in Node
        BY <2>1
    <2> QED
        BY <1>1, <2>1, <2>2 DEF Node, Parent, Slot
<1>3. /\ NodesLegal /\ BreadthFirst
      /\ \A w \in Ways : isValid(Home(req, w))
      /\ ChainStart /\ ChainSoFar /\ Linked(c, 2) /\ IsInjective(c)
    BY <1>1 DEF IInv, WalkInv, Walking, ChainInv
<1>4. PICK d \in [1 .. N -> Nat] : IsDepth(d)
    BY <1>1 DEF IInv, WalkInv, Walking
<1>5. s \in Slots /\ Parent(idx) \in 0 .. (idx - 1)
    BY <1>2
<1> HIDE DEF s
<1>6. /\ c' \in Seq(Slots) /\ Len(c') = Len(c) + 1 /\ c'[Len(c) + 1] = s
      /\ \A n \in 1 .. Len(c) : c'[n] = c[n]
      /\ Last(c') = s /\ c' # <<>>
    BY <1>1, <1>2, <1>5 DEF Last
<1>7. TypeOK'
    BY <1>1, <1>2, <1>5, <1>6 DEF IInv, TypeOK
<1>8. TagInv'
    BY <1>1, TagsAside DEF IInv, TagInv, RequestIsAbsent
<1>9. WalkInv'
    <2>1. NodesLegal' /\ BreadthFirst'
        BY <1>1, <1>3, TreeAside
    <2>2. IsDepth(d)'
        <3>1. d[idx] = IF Parent(idx) = 0 THEN 1 ELSE d[Parent(idx)] + 1
            BY <1>2, <1>4 DEF IsDepth
        <3>2. Len(c) + d[idx] <= WalkLevels /\ d[idx] \in Nat
            BY <1>1, <1>2, <1>4 DEF IsDepth
        <3>3. Parent(idx) # 0 => d[Parent(idx)] \in Nat
            BY <1>2, <1>5
        <3>4. Len(c') + (IF idx' = 0 THEN 0 ELSE d[idx']) <= WalkLevels
            BY <1>1, <1>2, <1>6, <3>1, <3>2, <3>3, WalkAssumption
        <3> QED
            BY <1>1, <1>4, <3>4 DEF IsDepth, Parent
    <2>3. PassedAreFull' /\ ~Searching'
        BY <1>1 DEF PassedAreFull, Searching
    <2> QED
        BY <1>1, <1>3, <2>1, <2>2, <2>3 DEF WalkInv, isValid, Home
\* The node appended: the slots of the chain come after it in the tree.
<1>10. /\ FirstOfSlot(idx)
       /\ \A n \in 1 .. Len(c) : ~Listed(c[n], idx)
       /\ isValid(c'[1]) => AllValid
       /\ c # <<>> => isValid(s) /\ c[Len(c)] \in Alternatives(s)
    <2>1. CASE c = <<>>
        BY <1>2, <1>3, <1>6, <2>1 DEF ChainStart, s
    <2>2. CASE c # <<>>
        <3>1. PICK m \in 1 .. N :
                /\ Slot(m) = Last(c) /\ Parent(m) = idx /\ FirstOfSlot(m)
                /\ \A n \in 1 .. (Len(c) - 1) : ~Listed(c[n], m)
            BY <1>3, <2>2 DEF ChainSoFar
        <3>2. Len(c) \in 1 .. Len(c) /\ Last(c) = c[Len(c)] /\ idx \in 1 .. (m - 1)
            BY <1>2, <2>2, <3>1 DEF Last
        <3>3. FirstOfSlot(idx)
            BY <1>3, <3>1, <3>2, ParentIsFirst
        <3>4. ASSUME NEW n \in 1 .. Len(c), Listed(c[n], idx)
              PROVE  FALSE
            <4>1. PICK k \in 1 .. idx : Slot(k) = c[n]
                BY <3>4 DEF Listed
            <4>2. k \in 1 .. (m - 1) /\ k \in 1 .. m
                BY <1>2, <3>2
            <4>3. CASE n = Len(c)
                BY <3>1, <3>2, <4>1, <4>2, <4>3 DEF FirstOfSlot
            <4>4. CASE n # Len(c)
                <5>1. n \in 1 .. (Len(c) - 1)
                    BY <1>2, <4>4
                <5> QED
                    BY <3>1, <4>1, <4>2, <5>1 DEF Listed
            <4> QED
                BY <4>3, <4>4
        <3>5. isValid(c'[1]) => AllValid
            <4>1. c'[1] = c[1]
                BY <1>6, <3>2
            <4> QED
                BY <1>3, <2>2, <4>1 DEF ChainSoFar
        <3>6. isValid(s) /\ c[Len(c)] \in Alternatives(s)
            BY <1>1, <1>3, <3>1, <3>2 DEF NodesLegal, s
        <3> QED
            BY <3>3, <3>4, <3>5, <3>6
    <2> QED
        BY <2>1, <2>2
<1>11. Linked(c', 2) /\ Linked(c, 2)'
    <2>1. Linked(c', 2)
        <3> SUFFICES ASSUME NEW n \in 2 .. Len(c')
                     PROVE  isValid(c'[n]) /\ c'[n - 1] \in Homes(tag[c'[n]])
            BY DEF Linked
        <3>1. CASE n \in 2 .. Len(c)
            <4>1. n - 1 \in 1 .. Len(c) /\ n \in 1 .. Len(c)
                BY <1>2, <3>1
            <4> QED
                BY <1>3, <1>6, <3>1, <4>1 DEF Linked
        <3>2. CASE n = Len(c) + 1
            <4>1. n - 1 = Len(c) /\ Len(c) \in 1 .. Len(c) /\ c # <<>>
                BY <1>2, <3>2
            <4>2. Alternatives(s) \subseteq Homes(tag[s])
                BY DEF Alternatives, Homes
            <4> QED
                BY <1>6, <1>10, <3>2, <4>1, <4>2
        <3> QED
            BY <1>2, <1>6, <3>1, <3>2
    <2> QED
        BY <1>1, <2>1 DEF Linked, isValid, Homes, Home
<1>12. IsInjective(c')
    <2>1. \A n \in 1 .. Len(c) : c[n] # s
        <3>1. Listed(s, idx)
            BY <1>2 DEF Listed, s
        <3> QED
            BY <1>10, <3>1
    <2>2. \A n, k \in 1 .. (Len(c) + 1) : c'[n] = c'[k] => n = k
        <3> SUFFICES ASSUME NEW n \in 1 .. (Len(c) + 1), NEW k \in 1 .. (Len(c) + 1),
                            c'[n] = c'[k], n # k
                     PROVE  FALSE
            OBVIOUS
        <3>1. CASE n \in 1 .. Len(c) /\ k \in 1 .. Len(c)
            BY <1>2, <1>3, <1>6, <3>1 DEF IsInjective
        <3>2. CASE n = Len(c) + 1 \/ k = Len(c) + 1
            BY <1>2, <1>6, <2>1, <3>2
        <3> QED
            BY <1>2, <3>1, <3>2
    <2>3. DOMAIN c' = 1 .. (Len(c) + 1)
        BY <1>6
    <2> QED
        BY <2>2, <2>3 DEF IsInjective
<1>13. ASSUME AllValid
       PROVE  Crowded(c')
    <2> SUFFICES ASSUME NEW n \in 3 .. Len(c'), NEW t \in Homes(tag[c'[n]])
                 PROVE  isValid(t)
        BY DEF Crowded
    <2>1. c # <<>>
        BY <1>2, <1>6
    <2>2. CASE n \in 3 .. Len(c)
        <3>1. c'[n] = c[n]
            BY <1>6, <2>2
        <3> QED
            BY <1>3, <1>13, <2>1, <2>2, <3>1 DEF ChainSoFar, Crowded
    <2>3. CASE n = Len(c) + 1
        <3>1. Len(c) >= 2 /\ c'[n] = s
            BY <1>2, <1>6, <2>3
        <3>2. Homes(tag[s]) = Alternatives(s) \cup {s}
            BY <1>5, <1>10, <2>1, AlternativesOfSlot DEF IInv, TagInv
        <3>3. CASE t = s
            BY <1>10, <2>1, <3>3
        <3>4. CASE t \in Alternatives(s)
            <4>1. Full(idx)
                BY <1>2, <1>3, <2>1, <3>1 DEF ChainSoFar
            <4>2. PICK k \in 1 .. N : Slot(k) = t
                BY <3>4, <4>1 DEF Full, Listed, s
            <4> QED
                BY <1>2, <1>13, <4>2 DEF AllValid, Slot
        <3> QED
            BY <3>1, <3>2, <3>3, <3>4
    <2> QED
        BY <1>2, <1>6, <2>2, <2>3
<1>14. ASSUME Len(c') >= 2, NEW a \in 1 .. Parent(idx)
       PROVE  Full(a)
    <2>1. Len(c) >= 1 /\ c # <<>> /\ a \in 1 .. idx /\ a \in 1 .. (idx - 1)
        BY <1>2, <1>5, <1>6, <1>14
    <2>2. CASE Len(c) >= 2
        BY <1>3, <2>1, <2>2 DEF ChainSoFar
    <2>3. CASE Len(c) = 1
        <3>1. PICK m \in 1 .. N : Parent(m) = idx
            BY <1>3, <2>1 DEF ChainSoFar
        <3>2. \A t \in Alternatives(Slot(a)) : Listed(t, m - 1)
            BY <1>3, <2>1, <3>1 DEF BreadthFirst
        <3> QED
            BY <1>2, <3>2 DEF Full, Listed
    <2>4. \A n \in Nat : n >= 1 => n >= 2 \/ n = 1
        OBVIOUS
    <2> QED
        BY <1>2, <2>1, <2>2, <2>3, <2>4
<1>15. ChainInv'
    <2>1. ChainStart'
        BY <1>6 DEF ChainStart
    <2>2. ChainSoFar'
        <3>1. /\ Slot(idx) = Last(c') /\ Parent(idx) = idx'
              /\ \A n \in 1 .. (Len(c') - 1) : ~Listed(c'[n], idx)
            BY <1>1, <1>2, <1>6, <1>10 DEF s
        <3>2. \E m \in 1 .. N :
                /\ Slot(m) = Last(c') /\ Parent(m) = idx' /\ FirstOfSlot(m)
                /\ \A n \in 1 .. (Len(c') - 1) : ~Listed(c'[n], m)
            BY <1>2, <1>10, <3>1
        <3>3. /\ isValid(c'[1]) => AllValid
              /\ AllValid => Crowded(c')
              /\ Len(c') >= 2 => \A a \in 1 .. idx' : Full(a)
            BY <1>1, <1>10, <1>13, <1>14
        <3> HIDE DEF c
        <3>4. /\ AllValid' = AllValid /\ isValid(c[1])' = isValid(c'[1])
              /\ Crowded(c)' = Crowded(c')
              /\ \A a : Full(a)' = Full(a)
            BY <1>1 DEF AllValid, isValid, Crowded, Full, Homes, Home, Listed, Slot,
                        Alternatives
        <3>5. \A m : /\ Slot(m)' = Slot(m) /\ Parent(m)' = Parent(m)
                     /\ FirstOfSlot(m)' = FirstOfSlot(m)
                     /\ \A t : Listed(t, m)' = Listed(t, m)
            BY <1>1 DEF Slot, Parent, FirstOfSlot, Listed
        <3> QED
            BY <1>1, <3>2, <3>3, <3>4, <3>5 DEF ChainSoFar, c
    <2> QED
        BY <1>11, <1>12, <2>1, <2>2 DEF ChainInv
<1>16. ExecInv' /\ AtRest'
    BY <1>1 DEF ExecInv, AtRest, Walking
<1> QED
    BY <1>7, <1>8, <1>9, <1>15, <1>16 DEF IInv

LEMMA ReturnVictimKeeps ==
    ASSUME IInv, ReturnVictim
    PROVE  IInv'
<1> DEFINE c == pendingSwapChain
<1>1. /\ pc = "chain" /\ idx = 0 /\ i' = 2
      /\ pc' = IF isValid(Head(c)) THEN "evict" ELSE "insert"
      /\ candidates' = <<>> /\ fi' = 0 /\ fringeEnd' = 0 /\ level' = 0
      /\ UNCHANGED <<tag, dirty, owed, req, idx, pendingSwapChain>>
    BY DEF ReturnVictim
<1>2. c \in Seq(Slots) /\ Len(c) \in Nat
    BY DEF IInv, TypeOK
<1>3. /\ \A w \in Ways : isValid(Home(req, w))
      /\ NodesLegal /\ ChainStart /\ ChainSoFar /\ Linked(c, 2) /\ IsInjective(c)
    BY <1>1 DEF IInv, WalkInv, Walking, ChainInv
<1>4. c # <<>> /\ Len(c) \in 1 .. WalkLevels
    <2>1. c # <<>>
        BY <1>1, <1>3 DEF ChainStart
    <2>2. Len(c) <= WalkLevels
        BY <1>1, <1>2, WalkAssumption DEF IInv, WalkInv, Walking, IsDepth
    <2> QED
        BY <1>2, <2>1, <2>2, WalkAssumption
<1>5. Head(c) = c[1]
    BY <1>2, <1>4
<1>6. c[Len(c)] \in Homes(req)
    BY <1>1, <1>3, <1>4 DEF ChainSoFar, NodesLegal, Last
<1>7. isValid(c[1]) => Crowded(c)
    BY <1>3, <1>4 DEF ChainSoFar
<1>8. TypeOK'
    BY <1>1, <1>2, WalkAssumption DEF IInv, TypeOK, Phases
<1>9. TagInv'
    BY <1>1, TagsAside DEF IInv, TagInv, RequestIsAbsent
<1>10. ExecInv'
    <2>1. /\ Linked(c, 2)' /\ Homes(req)' = Homes(req)
          /\ isValid(c[1])' = isValid(c[1]) /\ Crowded(c)' = Crowded(c)
        BY <1>1, <1>3 DEF Linked, Crowded, Homes, Home, isValid
    <2>2. i' \in 2 .. (Len(c) + 1)
        BY <1>1, <1>2, <1>4
    <2>3. pc' = "evict" => /\ isValid(c[1]) /\ Crowded(c)
                           /\ \A s \in Homes(req) : isValid(s)'
        BY <1>1, <1>3, <1>5, <1>7 DEF Homes, isValid
    <2>4. pc' = "insert" => ~isValid(c[1])
        BY <1>1, <1>5
    <2> QED
        BY <1>1, <1>3, <1>4, <1>6, <2>1, <2>2, <2>3, <2>4 DEF ExecInv
<1>11. WalkInv' /\ ChainInv' /\ AtRest'
    BY <1>1 DEF WalkInv, ChainInv, AtRest, Walking, Searching
<1> QED
    BY <1>8, <1>9, <1>10, <1>11 DEF IInv
-----------------------------------------------------------------------------
LEMMA StutterKeeps ==
    ASSUME IInv, UNCHANGED vars
    PROVE  IInv'
<1>1. UNCHANGED <<tag, dirty, owed, pc, req, candidates, fi, fringeEnd, level, idx,
                  pendingSwapChain, i>>
    BY DEF vars, walk
<1>2. TypeOK' /\ AtRest'
    BY <1>1 DEF IInv, TypeOK, AtRest, Walking, Searching
<1>3. TagInv'
    BY <1>1, TagsAside DEF IInv, TagInv, RequestIsAbsent
<1>4. WalkInv'
    <2>1. WalkInv' = WalkInv
        BY <1>1
           DEF WalkInv, Walking, Searching, NodesLegal, BreadthFirst, PassedAreFull,
               IsDepth, Full, Listed, Alternatives, Slot, Parent, AllValid, isValid,
               Homes, Home
    <2> QED
        BY <2>1 DEF IInv
<1>5. ChainInv'
    <2>1. ChainInv' = ChainInv
        BY <1>1
           DEF ChainInv, ChainStart, ChainSoFar, FirstOfSlot, Linked, Crowded, Full,
               Listed, Alternatives, Slot, Parent, AllValid, isValid, Homes, Home,
               IsInjective
    <2> QED
        BY <2>1 DEF IInv
<1>6. ExecInv'
    BY <1>1 DEF IInv, ExecInv, Linked, Crowded, isValid, Homes, Home, IsInjective
<1> QED
    BY <1>2, <1>3, <1>4, <1>5, <1>6 DEF IInv

LEMMA StepKeeps ==
    ASSUME IInv, [Next]_vars
    PROVE  IInv'
<1>1. CASE Next
    BY <1>1, LineAssumption, FindFreeHomeKeeps, SeedWalkKeeps, SnoopInvalidateKeeps,
       WriteHitKeeps, StartLevelKeeps, ExpandNodeKeeps, EndLevelKeeps, SelectFreeKeeps,
       SelectByPolicyKeeps, BuildChainKeeps, ReturnVictimKeeps, EvictVictimKeeps,
       RefuseEvictionKeeps, MoveBlockKeeps, InsertLineKeeps
       DEF Next, Walk
<1>2. CASE UNCHANGED vars
    BY <1>2, StutterKeeps
<1> QED
    BY <1>1, <1>2

(***************************************************************************)
(* No write is lost.  It is proved line by line: a line that is safe stays *)
(* so whatever has become of the others.                                   *)
(***************************************************************************)
WriteIsSafe(l) == l \in owed => \E w \in Ways : tag[Home(l, w)] = l /\ dirty[Home(l, w)]

LEMMA EveryWriteIsSafe == TypeOK => (NoLostWrite <=> \A l \in Line : WriteIsSafe(l))
BY LineAssumption DEF TypeOK, NoLostWrite, WriteIsSafe

LEMMA InvalidateKeepsWrites ==
    ASSUME TypeOK, NEW s \in Slots, writeback(s), invalidate(s),
           NEW l \in Line, WriteIsSafe(l)
    PROVE  WriteIsSafe(l)'
<1>1. /\ tag \in [Slots -> Line \cup {NoLine}] /\ dirty \in [Slots -> BOOLEAN]
      /\ owed \subseteq Written
    BY DEF TypeOK
<1>2. /\ \A t \in Slots : tag'[t] = IF t = s THEN NoLine ELSE tag[t]
      /\ \A t \in Slots : dirty'[t] = IF t = s THEN FALSE ELSE dirty[t]
      /\ owed' \subseteq owed
    BY <1>1 DEF invalidate, writeback
<1> SUFFICES ASSUME l \in owed'
             PROVE  \E w \in Ways : (tag[Home(l, w)] = l /\ dirty[Home(l, w)])'
    BY DEF WriteIsSafe, Home
<1>3. l \in owed
    BY <1>2
<1>4. PICK w \in Ways : tag[Home(l, w)] = l /\ dirty[Home(l, w)]
    BY <1>3 DEF WriteIsSafe
<1>5. Home(l, w) \in Slots
    BY HomeType
<1>6. Home(l, w) # s
    BY <1>4 DEF writeback
<1> QED
    BY <1>2, <1>4, <1>5, <1>6 DEF Home

LEMMA RelocationKeepsWrites ==
    ASSUME TypeOK, NEW src \in Slots, NEW dst \in Slots,
           isValid(src), ~isValid(dst), dst \in Homes(tag[src]), doMoveBlock(src, dst),
           owed' = owed, NEW l \in Line, WriteIsSafe(l)
    PROVE  WriteIsSafe(l)'
<1>1. /\ tag \in [Slots -> Line \cup {NoLine}] /\ dirty \in [Slots -> BOOLEAN]
      /\ src # dst
      /\ tag[src] \in Line /\ tag[dst] = NoLine
    BY DEF TypeOK, isValid
<1>2. /\ \A t \in Slots : tag'[t] = IF t = src THEN NoLine
                                    ELSE IF t = dst THEN tag[src] ELSE tag[t]
      /\ \A t \in Slots : dirty'[t] = IF t = src THEN FALSE
                                      ELSE IF t = dst THEN dirty[src] ELSE dirty[t]
    BY <1>1 DEF doMoveBlock
<1> SUFFICES ASSUME l \in owed
             PROVE  \E w \in Ways : (tag[Home(l, w)] = l /\ dirty[Home(l, w)])'
    BY DEF WriteIsSafe, Home
<1>3. l # NoLine
    BY LineAssumption
<1>4. PICK w \in Ways : tag[Home(l, w)] = l /\ dirty[Home(l, w)]
    BY DEF WriteIsSafe
<1>5. Home(l, w) \in Slots
    BY HomeType
<1>6. CASE Home(l, w) = src
    <2>1. PICK v \in Ways : dst = Home(l, v)
        BY <1>4, <1>6 DEF Homes
    <2> QED
        BY <1>1, <1>2, <1>4, <1>6, <2>1 DEF Home
<1>7. CASE Home(l, w) # src
    <2>1. Home(l, w) # dst
        BY <1>1, <1>3, <1>4
    <2> QED
        BY <1>2, <1>4, <1>5, <1>7, <2>1 DEF Home
<1> QED
    BY <1>6, <1>7

\* The block that insertBlock() moves, where it moves it, and what it overwrites.
LEMMA MovedBlock ==
    ASSUME IInv, MoveBlock
    PROVE  LET src == pendingSwapChain[i]
               dst == pendingSwapChain[i - 1]
           IN /\ src \in Slots /\ dst \in Slots
              /\ isValid(src) /\ ~isValid(dst) /\ dst \in Homes(tag[src])
              /\ doMoveBlock(src, dst)
<1> DEFINE src == pendingSwapChain[i]
           dst == pendingSwapChain[i - 1]
<1>1. /\ pendingSwapChain \in Seq(Slots)
      /\ i \in 2 .. Len(pendingSwapChain) /\ Linked(pendingSwapChain, i)
      /\ ~isValid(dst)
    BY WalkAssumption DEF MoveBlock, IInv, TypeOK, ExecInv
<1>2. src \in Slots /\ dst \in Slots /\ isValid(src) /\ dst \in Homes(tag[src])
    BY <1>1 DEF Linked
<1> QED
    BY <1>1, <1>2 DEF MoveBlock

LEMMA FreeRoot ==
    ASSUME IInv, InsertLine
    PROVE  LET s == Last(pendingSwapChain)
           IN /\ s \in Slots /\ ~isValid(s) /\ s \in Homes(req) /\ req \in Line
              /\ \A t \in Slots : tag'[t] = IF t = s THEN req ELSE tag[t]
<1> DEFINE s == Last(pendingSwapChain)
<1>1. /\ pc = "insert" /\ i > Len(pendingSwapChain)
      /\ tag' = [tag EXCEPT ![s] = req]
    BY DEF InsertLine
<1>2. /\ pendingSwapChain \in Seq(Slots) /\ Len(pendingSwapChain) \in 1 .. WalkLevels
      /\ i = Len(pendingSwapChain) + 1
      /\ s = pendingSwapChain[Len(pendingSwapChain)] /\ s \in Homes(req)
      /\ ~isValid(s)
    BY <1>1, WalkAssumption DEF IInv, TypeOK, ExecInv, Last
<1>3. s \in Slots /\ req \in Line /\ tag \in [Slots -> Line \cup {NoLine}]
    BY <1>1, <1>2, WalkAssumption DEF IInv, TypeOK
<1> HIDE DEF s
<1> QED
    BY <1>1, <1>2, <1>3 DEF s

LEMMA WriteIsKept ==
    ASSUME IInv, [Next]_vars, NEW l \in Line, WriteIsSafe(l)
    PROVE  WriteIsSafe(l)'
<1>1. CASE UNCHANGED <<tag, dirty, owed>>
    BY <1>1 DEF WriteIsSafe, Home
<1>2. ASSUME NEW k \in Line, SnoopInvalidate(k)
      PROVE  WriteIsSafe(l)'
    <2>1. findBlock(k) \in Slots
        BY <1>2, FoundBlock DEF IInv, TagInv, SnoopInvalidate
    <2> QED
        BY <1>2, <2>1, InvalidateKeepsWrites DEF IInv, SnoopInvalidate
<1>3. CASE EvictVictim
    <2>1. Head(pendingSwapChain) \in Slots
        BY <1>3, WalkAssumption DEF EvictVictim, IInv, TypeOK, ExecInv
    <2> QED
        BY <1>3, <2>1, InvalidateKeepsWrites DEF IInv, EvictVictim
<1>4. CASE MoveBlock
    BY <1>4, MovedBlock, RelocationKeepsWrites DEF IInv, MoveBlock
<1>5. CASE InsertLine
    <2> DEFINE s == Last(pendingSwapChain)
    <2>1. /\ ~isValid(s) /\ UNCHANGED <<dirty, owed>>
          /\ \A t \in Slots : tag'[t] = IF t = s THEN req ELSE tag[t]
        BY <1>5, FreeRoot DEF InsertLine
    <2> HIDE DEF s
    <2> SUFFICES ASSUME l \in owed
                 PROVE  \E w \in Ways : (tag[Home(l, w)] = l /\ dirty[Home(l, w)])'
        BY <2>1 DEF WriteIsSafe, Home
    <2>2. l # NoLine
        BY LineAssumption
    <2>3. PICK w \in Ways : tag[Home(l, w)] = l /\ dirty[Home(l, w)]
        BY DEF WriteIsSafe
    <2>4. Home(l, w) \in Slots /\ Home(l, w) # s
        BY <2>1, <2>2, <2>3, HomeType DEF isValid
    <2> QED
        BY <2>1, <2>3, <2>4 DEF Home
<1>6. ASSUME NEW k \in Written, WriteHit(k)
      PROVE  WriteIsSafe(l)'
    <2> DEFINE s == findBlock(k)
    <2>1. k \in Line /\ s \in Slots /\ tag[s] = k
        BY <1>6, FoundBlock, LineAssumption DEF IInv, TagInv, WriteHit
    <2>2. PICK w \in Ways : s = Home(k, w)
        BY <2>1, LineAssumption DEF IInv, TagInv, Placement, Homes, isValid
    <2>3. /\ dirty' = [dirty EXCEPT ![s] = TRUE] /\ owed' = owed \cup {k} /\ tag' = tag
        BY <1>6 DEF WriteHit
    <2> HIDE DEF s
    <2>4. dirty'[s] /\ \A t \in Slots : dirty[t] => dirty'[t]
        BY <2>1, <2>3 DEF IInv, TypeOK
    <2>5. CASE l = k
        BY <2>1, <2>2, <2>3, <2>4, <2>5 DEF WriteIsSafe, Home
    <2>6. CASE l # k
        BY <2>3, <2>4, <2>6, HomeType DEF WriteIsSafe, Home
    <2> QED
        BY <2>5, <2>6
<1>7. ASSUME NEW k \in Line, FindFreeHome(k) \/ SeedWalk(k)
      PROVE  UNCHANGED <<tag, dirty, owed>>
    BY <1>7 DEF FindFreeHome, SeedWalk
<1>8. ASSUME Walk \/ RefuseEviction \/ UNCHANGED vars
      PROVE  UNCHANGED <<tag, dirty, owed>>
    BY <1>8 DEF Walk, StartLevel, ExpandNode, EndLevel, SelectFree, SelectByPolicy,
                ChooseNode, BuildChain, ReturnVictim, RefuseEviction, vars
<1> QED
    BY <1>1, <1>2, <1>3, <1>4, <1>5, <1>6, <1>7, <1>8 DEF Next

LEMMA WritesStaySafe ==
    ASSUME IInv, NoLostWrite, [Next]_vars
    PROVE  NoLostWrite'
<1>1. TypeOK /\ TypeOK'
    BY StepKeeps DEF IInv
<1>2. TypeOK' => (NoLostWrite' <=> \A l \in Line : WriteIsSafe(l)')
    BY LineAssumption DEF TypeOK, NoLostWrite, WriteIsSafe, Home
<1>3. \A l \in Line : WriteIsSafe(l)
    BY <1>1, EveryWriteIsSafe
<1> QED
    BY <1>1, <1>2, <1>3, WriteIsKept

\* The invariant holds whatever the hash functions and the limits of the walk.
THEOREM Invariance == Spec => []IInv
<1>1. Init => IInv
    BY InitHolds
<1>2. IInv /\ [Next]_vars => IInv'
    BY StepKeeps
<1> QED
    BY <1>1, <1>2, PTL DEF Spec

\* The tag array, the walk and the chain stay in their types, and a walk never
\* holds more nodes than num_candidates.
THEOREM TypeCorrect == Spec => []TypeOK
<1>1. IInv => TypeOK
    BY DEF IInv
<1> QED
    BY <1>1, Invariance, PTL

\* findBlock() looks in the right place: every cached line is in a slot that one
\* of the hash functions gives it.
THEOREM LinesAreInPlace == Spec => []Placement
<1>1. IInv => Placement
    BY DEF IInv, TagInv
<1> QED
    BY <1>1, Invariance, PTL

\* No line is cached twice, before, during and after a chain of relocations.
THEOREM LinesAreUnique == Spec => []NoDuplicateLine
<1>1. IInv => NoDuplicateLine
    BY DEF IInv, TagInv
<1> QED
    BY <1>1, Invariance, PTL

\* A write is never lost: a line that memory lacks is cached and dirty, where a
\* lookup finds it.
THEOREM WritesAreKept == Spec => []NoLostWrite
<1>1. Init => NoLostWrite
    BY DEF Init, NoLostWrite
<1>2. IInv /\ NoLostWrite /\ [Next]_vars => NoLostWrite'
    BY WritesStaySafe
<1> QED
    BY <1>1, <1>2, Invariance, PTL DEF Spec

\* What the chain's invariants say where they are used.
LEMMA ChainFacts == IInv => RelocationAsserts /\ ChainIsLegal /\ EvictsOnlyWhenFull
<1> SUFFICES ASSUME IInv PROVE RelocationAsserts /\ ChainIsLegal /\ EvictsOnlyWhenFull
    OBVIOUS
<1>1. ASSUME pc = "insert" PROVE RelocationAsserts
    <2>1. /\ Len(pendingSwapChain) \in 1 .. WalkLevels
          /\ i \in 2 .. (Len(pendingSwapChain) + 1)
          /\ ~isValid(pendingSwapChain[i - 1])
        BY <1>1 DEF IInv, ExecInv
    <2>2. CASE i <= Len(pendingSwapChain)
        BY <2>1, <2>2 DEF RelocationAsserts
    <2>3. CASE ~(i <= Len(pendingSwapChain))
        <3>1. i - 1 = Len(pendingSwapChain)
            BY <2>1, <2>3, WalkAssumption
        <3> QED
            BY <2>1, <2>3, <3>1 DEF RelocationAsserts, Last
    <2> QED
        BY <2>2, <2>3
<1>2. ChainIsLegal
    BY WalkAssumption DEF IInv, ExecInv, ChainIsLegal, Linked, Last
<1>3. EvictsOnlyWhenFull
    BY DEF IInv, ExecInv, EvictsOnlyWhenFull, Crowded
<1> QED
    BY <1>1, <1>2, <1>3 DEF RelocationAsserts

\* The assertions of doMoveBlock() and insertBlock() never fail.
THEOREM AssertionsHold == Spec => []RelocationAsserts
BY ChainFacts, Invariance, PTL

\* A chain that is about to be executed is legal: it leads to the missing line by
\* moves between slots of the same line, visits no slot twice, and is no longer
\* than walk_levels.
THEOREM ChainsAreLegal == Spec => []ChainIsLegal
BY ChainFacts, Invariance, PTL

\* A line is evicted only when the slots around it are taken.
THEOREM EvictionsAreNeeded == Spec => []EvictsOnlyWhenFull
BY ChainFacts, Invariance, PTL
-----------------------------------------------------------------------------
(***************************************************************************)
(* The tag store implements LineStore.  A block leaves with its line.      *)
(***************************************************************************)
LEMMA BlockLeaves ==
    ASSUME TypeOK, TagInv, NoLostWrite, NEW s \in Slots, isValid(s), writeback(s), invalidate(s)
    PROVE  Store!Next
<1> DEFINE l == tag[s]
<1>1. /\ tag \in [Slots -> Line \cup {NoLine}] /\ dirty \in [Slots -> BOOLEAN]
      /\ owed \subseteq Written /\ l # NoLine
    BY DEF TypeOK, isValid
<1>2. /\ \A t \in Slots : tag'[t] = IF t = s THEN NoLine ELSE tag[t]
      /\ \A t \in Slots : dirty'[t] = IF t = s THEN FALSE ELSE dirty[t]
    BY <1>1 DEF invalidate
<1>3. \A t \in Slots : tag[t] = l => t = s
    BY <1>1 DEF TagInv, NoDuplicateLine, isValid
<1>4. owed' = owed \ {l}
    <2>1. CASE dirty[s]
        BY <2>1 DEF writeback
    <2>2. CASE ~dirty[s]
        <3>1. l \notin owed
            <4> SUFFICES ASSUME l \in owed PROVE FALSE
                OBVIOUS
            <4>1. PICK w \in Ways : tag[Home(l, w)] = l /\ dirty[Home(l, w)]
                BY DEF NoLostWrite
            <4>2. Home(l, w) \in Slots
                BY <1>1, HomeType
            <4> QED
                BY <1>3, <2>2, <4>1, <4>2
        <3> QED
            BY <2>2, <3>1 DEF writeback
    <2> QED
        BY <2>1, <2>2
<1>5. l \in Cached /\ Cached' = Cached \ {l}
    BY <1>1, <1>2, <1>3 DEF Cached
<1>6. Modified' = Modified \ {l}
    <2> DEFINE D == {t \in Slots : isValid(t) /\ dirty[t]}
    <2>1. D' = D \ {s} /\ D \subseteq Slots
        BY <1>1, <1>2 DEF isValid
    <2>2. Modified = {tag[t] : t \in D} /\ Modified' = {tag'[t] : t \in D'}
        BY DEF Modified
    <2> HIDE DEF D
    <2> QED
        BY <1>2, <1>3, <2>1, <2>2
<1> QED
    BY <1>4, <1>5, <1>6 DEF Store!Next, Store!Leave

LEMMA RelocationIsInvisible ==
    ASSUME TypeOK, NEW src \in Slots, NEW dst \in Slots,
           isValid(src), ~isValid(dst), doMoveBlock(src, dst)
    PROVE  Cached' = Cached /\ Modified' = Modified
<1>1. /\ tag \in [Slots -> Line \cup {NoLine}] /\ dirty \in [Slots -> BOOLEAN]
      /\ src # dst /\ tag[src] # NoLine /\ tag[dst] = NoLine
    BY DEF TypeOK, isValid
<1>2. /\ \A t \in Slots : tag'[t] = IF t = src THEN NoLine
                                    ELSE IF t = dst THEN tag[src] ELSE tag[t]
      /\ \A t \in Slots : dirty'[t] = IF t = src THEN FALSE
                                      ELSE IF t = dst THEN dirty[src] ELSE dirty[t]
    BY <1>1 DEF doMoveBlock
<1>3. Cached' = Cached
    BY <1>1, <1>2 DEF Cached
<1>4. Modified' = Modified
    <2> DEFINE D == {t \in Slots : isValid(t) /\ dirty[t]}
    <2>1. /\ D \subseteq Slots /\ dst \notin D /\ src \notin D'
          /\ dst \in D' <=> src \in D
          /\ \A t \in Slots \ {src, dst} : t \in D' <=> t \in D
        BY <1>1, <1>2 DEF isValid
    <2>2. Modified = {tag[t] : t \in D} /\ Modified' = {tag'[t] : t \in D'}
          /\ D' \subseteq Slots
        BY DEF Modified
    <2> HIDE DEF D
    <2> QED
        BY <1>1, <1>2, <2>1, <2>2
<1> QED
    BY <1>3, <1>4

LEMMA LineComesIn ==
    ASSUME IInv, InsertLine
    PROVE  Store!Next
<1> DEFINE s == Last(pendingSwapChain)
<1>1. /\ pc = "insert" /\ i > Len(pendingSwapChain)
      /\ UNCHANGED <<dirty, owed>> /\ tag' = [tag EXCEPT ![s] = req]
    BY DEF InsertLine
<1>2. /\ pendingSwapChain \in Seq(Slots) /\ Len(pendingSwapChain) \in 1 .. WalkLevels
      /\ i = Len(pendingSwapChain) + 1
      /\ s = pendingSwapChain[Len(pendingSwapChain)] /\ ~isValid(s)
    BY <1>1, WalkAssumption DEF IInv, TypeOK, ExecInv, Last
<1>3. /\ s \in Slots /\ req \in Line /\ req # NoLine
      /\ tag \in [Slots -> Line \cup {NoLine}]
      /\ dirty[s] = FALSE /\ tag[s] = NoLine /\ \A t \in Slots : tag[t] # req
    BY <1>1, <1>2, WalkAssumption, LineAssumption
       DEF IInv, TypeOK, TagInv, CleanWhenInvalid, RequestIsAbsent, isValid
<1> HIDE DEF s
<1>4. \A t \in Slots : tag'[t] = IF t = s THEN req ELSE tag[t]
    BY <1>1, <1>3
<1>5. req \notin Cached /\ Cached' = Cached \cup {req}
    BY <1>3, <1>4 DEF Cached
<1>6. Modified' = Modified
    BY <1>1, <1>3, <1>4 DEF Modified, isValid
<1> QED
    BY <1>1, <1>3, <1>5, <1>6 DEF Store!Next, Store!Fill

LEMMA LineIsWritten ==
    ASSUME IInv, NEW l \in Written, WriteHit(l)
    PROVE  Store!Next
<1> DEFINE s == findBlock(l)
<1>1. /\ l \in Line /\ s \in Slots /\ tag[s] = l
      /\ \A t \in Slots : tag[t] = l => t = s
    BY FoundBlock, LineAssumption DEF IInv, TagInv, WriteHit
<1>2. /\ dirty' = [dirty EXCEPT ![s] = TRUE] /\ owed' = owed \cup {l} /\ tag' = tag
      /\ dirty \in [Slots -> BOOLEAN] /\ l # NoLine
    BY <1>1, LineAssumption DEF WriteHit, IInv, TypeOK
<1> HIDE DEF s
<1>3. \A t \in Slots : dirty'[t] = IF t = s THEN TRUE ELSE dirty[t]
    BY <1>1, <1>2
<1>4. l \in Cached /\ Cached' = Cached
    BY <1>1, <1>2 DEF Cached
<1>5. Modified' = Modified \cup {l}
    BY <1>1, <1>2, <1>3 DEF Modified, isValid
<1> QED
    BY <1>2, <1>4, <1>5 DEF Store!Next, Store!Write

\* Every behaviour of the tag store is one of LineStore: a fill brings one line in,
\* an eviction or a snoop takes one away with its last write, and a relocation is
\* invisible.
THEOREM TagsImplementLineStore == Spec => ImplementsLineStore
<1>1. Init => Store!Init
    BY DEF Init, Store!Init, Cached, Modified, isValid
<1>2. ASSUME IInv, NoLostWrite, [Next]_vars
      PROVE  [Store!Next]_<<Cached, Modified, owed>>
    <2>1. ASSUME UNCHANGED <<tag, dirty, owed>>
          PROVE  UNCHANGED <<Cached, Modified, owed>>
        BY <2>1 DEF Cached, Modified, isValid
    <2>2. ASSUME NEW l \in Line, SnoopInvalidate(l) PROVE Store!Next
        <3>1. findBlock(l) \in Slots /\ isValid(findBlock(l))
            BY <1>2, <2>2, FoundBlock, LineAssumption
               DEF IInv, TagInv, SnoopInvalidate, isValid
        <3> QED
            BY <1>2, <2>2, <3>1, BlockLeaves DEF IInv, SnoopInvalidate
    <2>3. CASE EvictVictim
        <3>1. Head(pendingSwapChain) \in Slots /\ isValid(Head(pendingSwapChain))
            BY <1>2, <2>3, WalkAssumption DEF EvictVictim, IInv, TypeOK, ExecInv
        <3> QED
            BY <1>2, <2>3, <3>1, BlockLeaves DEF IInv, EvictVictim
    <2>4. CASE MoveBlock
        BY <1>2, <2>4, MovedBlock, RelocationIsInvisible DEF IInv, MoveBlock
    <2>5. ASSUME NEW l \in Written, WriteHit(l) PROVE Store!Next
        BY <1>2, <2>5, LineIsWritten
    <2>6. CASE InsertLine
        BY <1>2, <2>6, LineComesIn
    <2>7. ASSUME NEW l \in Line, FindFreeHome(l) \/ SeedWalk(l)
          PROVE  UNCHANGED <<tag, dirty, owed>>
        BY <2>7 DEF FindFreeHome, SeedWalk
    <2>8. ASSUME Walk \/ RefuseEviction \/ UNCHANGED vars
          PROVE  UNCHANGED <<tag, dirty, owed>>
        BY <2>8 DEF Walk, StartLevel, ExpandNode, EndLevel, SelectFree, SelectByPolicy,
                    ChooseNode, BuildChain, ReturnVictim, RefuseEviction, vars
    <2> QED
        BY <1>2, <2>1, <2>2, <2>3, <2>4, <2>5, <2>6, <2>7, <2>8 DEF Next
<1> QED
    BY <1>1, <1>2, Invariance, WritesAreKept, PTL
       DEF Spec, ImplementsLineStore, Store!Spec
-----------------------------------------------------------------------------
(***************************************************************************)
(* Every miss comes to its end.  A fringe node is expanded once, and there *)
(* are no more nodes than num_candidates; the chain is read off towards a  *)
(* root; and each of its blocks moves once.                                *)
(***************************************************************************)
InBounds ==
    Searching => /\ fi \in 1 .. (fringeEnd + 1) /\ level >= 1
                 /\ pc = "level" => level <= WalkLevels
                 /\ pc = "walk" => level < WalkLevels

\* A bound on the steps left.  (Those of the data store during an eviction, see
\* CDZCacheProofs, are allowed for: that is what the 9 is.)
Work ==
    CASE pc = "level"  -> 3 * NumCandidates - fi + 2 * (WalkLevels - level) + 13
      [] pc = "walk"   -> 3 * NumCandidates - fi + 2 * (WalkLevels - level) + 12
      [] pc = "select" -> 2 * NumCandidates + 11
      [] pc = "chain"  -> 2 * idx + Len(pendingSwapChain) + 10
      [] pc = "evict"  -> Len(pendingSwapChain) + 9
      [] pc = "insert" -> Len(pendingSwapChain) + 2 - i
      [] OTHER         -> 0

MaxWork == 3 * NumCandidates + 2 * WalkLevels + 10

LEMMA InitInBounds == Init => InBounds
BY DEF Init, InBounds, Searching

\* What the bounds and the variant are made of.
Measures ==
    /\ NumCandidates \in Nat /\ NumCandidates >= 2 /\ WalkLevels \in Nat /\ WalkLevels >= 1
    /\ pc \in Phases
    /\ fi \in Nat /\ level \in Nat /\ i \in Nat
    /\ Len(candidates) \in Nat /\ Len(candidates) <= NumCandidates
    /\ fringeEnd \in Nat /\ fringeEnd <= Len(candidates)
    /\ idx \in Nat /\ idx <= Len(candidates)
    /\ Len(pendingSwapChain) \in Nat
    /\ pc \in {"level", "walk", "select"} => Len(pendingSwapChain) = 0
    /\ pc \in {"evict", "insert"} => /\ 1 <= Len(pendingSwapChain)
                                    /\ Len(pendingSwapChain) <= WalkLevels
                                    /\ 2 <= i /\ i <= Len(pendingSwapChain) + 1

LEMMA Measured == ASSUME IInv PROVE Measures
<1>1. NumCandidates \in Nat /\ NumCandidates >= 2 /\ WalkLevels \in Nat /\ WalkLevels >= 1
    BY WaysAssumption, WalkAssumption
<1>2. candidates \in Seq(Node) /\ pendingSwapChain \in Seq(Slots)
    BY DEF IInv, TypeOK
<1>3. Len(candidates) \in Nat /\ Len(pendingSwapChain) \in Nat
    BY <1>2, LenProperties
<1>4. pc \in {"level", "walk", "select"} => Len(pendingSwapChain) = 0
    BY DEF IInv, WalkInv, Walking, Searching
<1>5. pc \in {"evict", "insert"} => /\ 1 <= Len(pendingSwapChain)
                                    /\ Len(pendingSwapChain) <= WalkLevels
                                    /\ 2 <= i /\ i <= Len(pendingSwapChain) + 1
    BY <1>1, <1>3 DEF IInv, ExecInv
<1>6. /\ pc \in Phases /\ fi \in Nat /\ level \in Nat /\ i \in Nat
      /\ Len(candidates) <= NumCandidates
      /\ fringeEnd \in 0 .. Len(candidates) /\ idx \in 0 .. Len(candidates)
    BY DEF IInv, TypeOK
<1> QED
    BY <1>1, <1>3, <1>4, <1>5, <1>6 DEF Measures

WorkIs ==
    /\ pc = "level"  => Work = 3 * NumCandidates - fi + 2 * (WalkLevels - level) + 13
    /\ pc = "walk"   => Work = 3 * NumCandidates - fi + 2 * (WalkLevels - level) + 12
    /\ pc = "select" => Work = 2 * NumCandidates + 11
    /\ pc = "chain"  => Work = 2 * idx + Len(pendingSwapChain) + 10
    /\ pc = "evict"  => Work = Len(pendingSwapChain) + 9
    /\ pc = "insert" => Work = Len(pendingSwapChain) + 2 - i
    /\ pc = "idle"   => Work = 0

LEMMA WorkByCases == WorkIs /\ WorkIs'
BY DEF Work, WorkIs

LEMMA MissShortens ==
    ASSUME IInv, InBounds, pc # "idle", Next
    PROVE  InBounds' /\ Work' < Work
<1>0. Measures /\ WorkIs /\ WorkIs'
    BY Measured, WorkByCases
<1>1. CASE StartLevel
    <2>1. /\ pc = "level" /\ UNCHANGED <<candidates, fi, fringeEnd, level>>
          /\ (pc' = "walk" /\ level < WalkLevels) \/ pc' = "select"
        BY <1>1 DEF StartLevel, walk
    <2> QED
        BY <1>0, <2>1 DEF Measures, InBounds, Searching, WorkIs
<1>2. CASE ExpandNode
    <2>1. /\ pc = "walk" /\ pc' = "walk" /\ fi <= fringeEnd /\ fi' = fi + 1
          /\ UNCHANGED <<fringeEnd, level>>
        BY <1>2 DEF ExpandNode, InFringe
    <2> QED
        BY <1>0, <2>1 DEF Measures, InBounds, Searching, WorkIs
<1>3. CASE EndLevel
    <2>1. /\ pc = "walk" /\ pc' \in {"level", "select"} /\ fi' = fringeEnd + 1
          /\ fringeEnd' = Len(candidates) /\ level' = level + 1
        BY <1>3 DEF EndLevel
    <2> QED
        BY <1>0, <2>1 DEF Measures, InBounds, Searching, WorkIs
<1>4. CASE SelectFree \/ SelectByPolicy
    <2>1. PICK n \in DOMAIN candidates : ChooseNode(n)
        BY <1>4 DEF SelectFree, SelectByPolicy
    <2>2. pc = "select" /\ pc' = "chain" /\ idx' = n /\ pendingSwapChain' = pendingSwapChain
        BY <1>4, <2>1 DEF SelectFree, SelectByPolicy, ChooseNode
    <2>3. n \in 1 .. Len(candidates)
        BY LenProperties DEF IInv, TypeOK
    <2> QED
        BY <1>0, <2>2, <2>3 DEF Measures, InBounds, Searching, WorkIs
<1>5. CASE BuildChain
    <2>1. /\ pc = "chain" /\ pc' = "chain" /\ idx # 0 /\ idx' = candidates[idx].parentIdx
          /\ pendingSwapChain' = Append(pendingSwapChain, candidates[idx].slot)
        BY <1>5 DEF BuildChain
    <2>2. idx' \in Nat /\ idx' < idx
        <3>1. idx \in 1 .. Len(candidates) /\ idx \in DOMAIN candidates
            BY <2>1, LenProperties DEF IInv, TypeOK
        <3>2. candidates \in Seq(Node) /\ candidates[idx].parentIdx < idx
            BY <3>1 DEF IInv, TypeOK
        <3>3. candidates[idx] \in Node
            BY <3>1, <3>2, ElementOfSeq
        <3> QED
            BY <2>1, <3>2, <3>3 DEF Node
    <2>3. Len(pendingSwapChain') = Len(pendingSwapChain) + 1
        BY <2>1 DEF IInv, TypeOK
    <2> QED
        BY <1>0, <2>1, <2>2, <2>3 DEF Measures, InBounds, Searching, WorkIs
<1>6. CASE ReturnVictim
    <2>1. /\ pc = "chain" /\ pc' \in {"evict", "insert"} /\ i' = 2
          /\ pendingSwapChain' = pendingSwapChain
        BY <1>6 DEF ReturnVictim
    <2> QED
        BY <1>0, <2>1 DEF Measures, InBounds, Searching, WorkIs
<1>7. CASE EvictVictim
    <2>1. /\ pc = "evict" /\ pc' = "insert" /\ UNCHANGED <<pendingSwapChain, i>>
        BY <1>7 DEF EvictVictim
    <2> QED
        BY <1>0, <2>1 DEF Measures, InBounds, Searching, WorkIs
<1>8. CASE RefuseEviction
    <2>1. pc = "evict" /\ pc' = "idle"
        BY <1>8 DEF RefuseEviction
    <2> QED
        BY <1>0, <2>1 DEF Measures, InBounds, Searching, WorkIs
<1>9. CASE MoveBlock
    <2>1. /\ pc = "insert" /\ pc' = "insert" /\ i' = i + 1
          /\ pendingSwapChain' = pendingSwapChain
        BY <1>9 DEF MoveBlock
    <2> QED
        BY <1>0, <2>1 DEF Measures, InBounds, Searching, WorkIs
<1>10. CASE InsertLine
    <2>1. pc = "insert" /\ pc' = "idle"
        BY <1>10 DEF InsertLine
    <2> QED
        BY <1>0, <2>1 DEF Measures, InBounds, Searching, WorkIs
<1>11. StartLevel \/ ExpandNode \/ EndLevel \/ SelectFree \/ SelectByPolicy \/ BuildChain
       \/ ReturnVictim \/ EvictVictim \/ RefuseEviction \/ MoveBlock \/ InsertLine
    BY DEF Next, Walk, FindFreeHome, SeedWalk, SnoopInvalidate, WriteHit
<1> QED
    BY <1>1, <1>2, <1>3, <1>4, <1>5, <1>6, <1>7, <1>8, <1>9, <1>10, <1>11

LEMMA MissStarts ==
    ASSUME IInv, pc = "idle", Next
    PROVE  InBounds' /\ Work' <= MaxWork
<1>0. Measures /\ WorkIs /\ WorkIs'
    BY Measured, WorkByCases
<1>1. ASSUME NEW l \in Line, FindFreeHome(l)
      PROVE  InBounds' /\ Work' <= MaxWork
    <2>1. pc' = "insert" /\ i' = 2 /\ Len(pendingSwapChain') = 1
        BY <1>1 DEF FindFreeHome
    <2> QED
        BY <1>0, <2>1 DEF Measures, InBounds, Searching, WorkIs, MaxWork
<1>2. ASSUME NEW l \in Line, SeedWalk(l)
      PROVE  InBounds' /\ Work' <= MaxWork
    <2>1. pc' = "level" /\ fi' = 1 /\ fringeEnd' = NumWays /\ level' = 1
        BY <1>2 DEF SeedWalk
    <2> QED
        BY <1>0, <2>1, WaysAssumption DEF Measures, InBounds, Searching, WorkIs, MaxWork
<1>3. ASSUME NEW l, WriteHit(l) \/ SnoopInvalidate(l)
      PROVE  InBounds' /\ Work' <= MaxWork
    <2>1. pc' = "idle"
        BY <1>3 DEF WriteHit, SnoopInvalidate
    <2> QED
        BY <1>0, <2>1 DEF Measures, InBounds, Searching, WorkIs, MaxWork
<1> QED
    BY <1>1, <1>2, <1>3
       DEF Next, Walk, StartLevel, ExpandNode, EndLevel, SelectFree, SelectByPolicy,
           BuildChain, ReturnVictim, EvictVictim, RefuseEviction, MoveBlock, InsertLine

LEMMA WorkType == IInv /\ InBounds => Work \in Nat /\ (Work = 0 <=> pc = "idle")
<1> SUFFICES ASSUME IInv, InBounds PROVE Work \in Nat /\ (Work = 0 <=> pc = "idle")
    OBVIOUS
<1>0. Measures /\ WorkIs /\ WorkIs'
    BY Measured, WorkByCases
<1>1. CASE pc \in {"level", "walk"}
    BY <1>0, <1>1 DEF Measures, InBounds, Searching, WorkIs
<1>2. CASE pc \in {"select", "chain"}
    BY <1>0, <1>2 DEF Measures, WorkIs
<1>3. CASE pc \in {"evict", "insert"}
    BY <1>0, <1>3 DEF Measures, WorkIs
<1>4. CASE pc = "idle"
    BY <1>0, <1>4 DEF WorkIs
<1> QED
    BY <1>0, <1>1, <1>2, <1>3, <1>4 DEF Measures, Phases

LEMMA WorkTypeNext == IInv' /\ InBounds' => (Work \in Nat)'
<1>1. IInv /\ InBounds => Work \in Nat
    BY WorkType
<1> QED
    BY <1>1, PTL

Bounded == InBounds /\ Work <= MaxWork

LEMMA BoundedKeeps ==
    ASSUME IInv, Bounded, [Next]_vars
    PROVE  Bounded'
<1>1. CASE UNCHANGED vars
    <2>1. UNCHANGED <<pc, fi, fringeEnd, level, idx, pendingSwapChain, i>>
        BY <1>1 DEF vars, walk
    <2> QED
        BY <2>1 DEF Bounded, InBounds, Searching, Work
<1>2. CASE Next /\ pc = "idle"
    BY <1>2, MissStarts DEF Bounded
<1>3. CASE Next /\ pc # "idle"
    <2>1. InBounds' /\ Work' < Work
        BY <1>3, MissShortens DEF Bounded
    <2>2. IInv'
        BY StepKeeps
    <2>3. Work \in Nat /\ Work' \in Nat
        BY <2>1, <2>2, WorkType, WorkTypeNext DEF Bounded
    <2>4. MaxWork \in Nat
        BY WaysAssumption, WalkAssumption DEF MaxWork
    <2>5. Work' <= MaxWork
        BY <2>1, <2>3, <2>4 DEF Bounded
    <2> QED
        BY <2>1, <2>5 DEF Bounded
<1> QED
    BY <1>1, <1>2, <1>3

\* A miss has at most MaxWork steps, whatever the hash functions, the contents of the
\* cache and the choices of the replacement policy: a walk that comes back to slots
\* it has already seen, or a relocation chain, does not go on for ever.
THEOREM MissesEnd ==
    Spec => /\ [](Work \in 0 .. MaxWork /\ (Work = 0 <=> pc = "idle"))
            /\ [][pc # "idle" => Work' < Work]_vars
<1>1. Init => Bounded
    <2> SUFFICES ASSUME Init PROVE Bounded
        OBVIOUS
    <2>1. Work = 0
        BY DEF Init, Work
    <2>2. 0 <= MaxWork
        BY WaysAssumption, WalkAssumption DEF MaxWork
    <2> QED
        BY <2>1, <2>2, InitInBounds DEF Bounded
<1>2. IInv /\ Bounded /\ [Next]_vars => Bounded'
    BY BoundedKeeps
<1>3. IInv /\ Bounded => Work \in 0 .. MaxWork /\ (Work = 0 <=> pc = "idle")
    BY WorkType, WaysAssumption, WalkAssumption DEF Bounded, MaxWork
<1>4. IInv /\ Bounded /\ [Next]_vars => [pc # "idle" => Work' < Work]_vars
    BY MissShortens DEF Bounded
<1> QED
    BY <1>1, <1>2, <1>3, <1>4, Invariance, PTL DEF Spec
=============================================================================
