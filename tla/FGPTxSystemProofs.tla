------------------------- MODULE FGPTxSystemProofs --------------------------
(***************************************************************************)
(* What FGPTxSystem guarantees for every tree of PoW blocks, every set of  *)
(* depths and every interleaving of the queries with the PoW chain.        *)
(***************************************************************************)
EXTENDS FGPTxSystem, WellFoundedInduction, TLAPS

-----------------------------------------------------------------------------
(***************************************************************************)
(* The tree of blocks.  The ancestors of a block are the least set that    *)
(* has the block and the parents of its members.                           *)
(***************************************************************************)
Closed(S) == \A c \in S \ {Genesis} : Parent[c] \in S

Least(b) == {a \in Blocks : \A S \in SUBSET Blocks : b \in S /\ Closed(S) => a \in S}

\* A set of natural numbers has a least element.
LEMMA LeastNumber ==
  ASSUME NEW S \in SUBSET Nat, S # {}
  PROVE  \E n \in S : \A m \in S : n <= m
<1>1. IsWellFoundedOn(OpToRel(<, Nat), Nat)
  BY NatLessThanWellFounded
<1>2. PICK n \in S : \A m \in S : ~ (<<m, n>> \in OpToRel(<, Nat))
  BY <1>1, WFMin
<1>3. \A m \in S : ~ (m < n)
  BY <1>2 DEF OpToRel
<1> QED BY <1>3

\* A bounded one has a greatest element, which Max returns.
LEMMA MaxOfBounded ==
  ASSUME NEW S \in SUBSET Nat, S # {}, NEW N \in Nat, \A m \in S : m <= N
  PROVE  Max(S) \in S /\ \A m \in S : m <= Max(S)
<1> DEFINE T == {N - m : m \in S}
<1>1. T \in SUBSET Nat /\ T # {}
  <2>1. \A m \in S : m \in Nat /\ m <= N
    OBVIOUS
  <2>2. \A m \in S : N - m \in Nat
    BY <2>1
  <2> QED BY <2>2
<1>2. PICK t \in T : \A s \in T : t <= s
  BY <1>1, LeastNumber
<1>3. PICK n \in S : t = N - n
  OBVIOUS
<1>4. \A m \in S : n >= m
  BY <1>2, <1>3
<1>5. Max(S) = CHOOSE x \in S : \A y \in S : x >= y
  BY DEF Max
<1>6. Max(S) \in S /\ \A y \in S : Max(S) >= y
  BY <1>4, <1>5
<1> QED BY <1>6

\* The least closed set is the block and the least closed set of its parent.
LEMMA LeastStep ==
  ASSUME NEW b \in Blocks
  PROVE  Least(b) = {b} \cup (IF b = Genesis THEN {} ELSE Least(Parent[b]))
<1> DEFINE S == {b} \cup (IF b = Genesis THEN {} ELSE Least(Parent[b]))
<1>1. b # Genesis => Parent[b] \in Blocks
  BY BlocksAssumption
<1>2. S \subseteq Blocks
  BY DEF Least
<1>3. ASSUME b # Genesis PROVE Parent[b] \in Least(Parent[b])
  BY <1>1, <1>3 DEF Least
<1>4. ASSUME b # Genesis PROVE Closed(Least(Parent[b]))
  <2> SUFFICES ASSUME NEW c \in Least(Parent[b]), c # Genesis PROVE Parent[c] \in Least(Parent[b])
    BY DEF Closed
  <2>1. c \in Blocks /\ Parent[c] \in Blocks
    BY BlocksAssumption DEF Least
  <2>2. ASSUME NEW T \in SUBSET Blocks, Parent[b] \in T, Closed(T) PROVE Parent[c] \in T
    BY <2>2 DEF Least, Closed
  <2> QED BY <2>1, <2>2 DEF Least
<1>5. Closed(S)
  BY <1>3, <1>4 DEF Closed
<1>6. Least(b) \subseteq S
  BY <1>2, <1>5 DEF Least
<1>7. S \subseteq Least(b)
  <2>1. b \in Least(b)
    BY DEF Least
  <2>2. ASSUME b # Genesis, NEW a \in Least(Parent[b]) PROVE a \in Least(b)
    BY <2>2 DEF Least, Closed
  <2> QED BY <2>1, <2>2
<1> QED BY <1>6, <1>7

\* The recursive definition of Ancestors has a solution.
LEMMA AncestorsDef ==
  Ancestors = [b \in Blocks |-> {b} \cup (IF b = Genesis THEN {} ELSE Ancestors[Parent[b]])]
<1> DEFINE f == [b \in Blocks |-> Least(b)]
           F(g) == [b \in Blocks |-> {b} \cup (IF b = Genesis THEN {} ELSE g[Parent[b]])]
<1>1. \A b \in Blocks : f[b] = {b} \cup (IF b = Genesis THEN {} ELSE f[Parent[b]])
  BY LeastStep, BlocksAssumption
<1>2. f = F(f)
  BY <1>1
<1> HIDE DEF f
<1>3. \E g : g = F(g)
  BY <1>2
<1>4. Ancestors = CHOOSE g : g = F(g)
  BY DEF Ancestors
<1> QED BY <1>3, <1>4

\* The unfolding of Ancestors at a block.
LEMMA AncestorsStep ==
  ASSUME NEW b \in Blocks
  PROVE  Ancestors[b] = {b} \cup (IF b = Genesis THEN {} ELSE Ancestors[Parent[b]])
<1> DEFINE F(g) == [c \in Blocks |-> {c} \cup (IF c = Genesis THEN {} ELSE g[Parent[c]])]
<1>1. Ancestors = F(Ancestors)
  BY AncestorsDef
<1>2. \A g : F(g)[b] = {b} \cup (IF b = Genesis THEN {} ELSE g[Parent[b]])
  OBVIOUS
<1> HIDE DEF F
<1> QED BY <1>1, <1>2

\* And only one solution, since heights decrease towards the genesis block.
LEMMA AncestorsLeast ==
  ASSUME NEW b \in Blocks
  PROVE  Ancestors[b] = Least(b)
<1> DEFINE Wrong == {c \in Blocks : Ancestors[c] # Least(c)}
           T == {Height[c] : c \in Wrong}
<1> SUFFICES ASSUME Wrong # {} PROVE FALSE
  OBVIOUS
<1>1. T \in SUBSET Nat /\ T # {}
  BY BlocksAssumption
<1>2. PICK c \in Wrong : \A e \in Wrong : Height[c] <= Height[e]
  <2>1. PICK n \in T : \A m \in T : n <= m
    BY <1>1, LeastNumber
  <2> QED BY <2>1
<1>3. c \in Blocks /\ Ancestors[c] # Least(c)
  OBVIOUS
<1>4. c # Genesis
  BY <1>3, AncestorsStep, LeastStep
<1>5. /\ Parent[c] \in Blocks /\ Height[c] = Height[Parent[c]] + 1
      /\ Height[c] \in Nat /\ Height[Parent[c]] \in Nat
  BY <1>3, <1>4, BlocksAssumption
<1>6. Parent[c] \notin Wrong
  BY <1>2, <1>5
<1>7. Ancestors[Parent[c]] = Least(Parent[c])
  BY <1>5, <1>6
<1>8. Ancestors[c] = {c} \cup Ancestors[Parent[c]] /\ Least(c) = {c} \cup Least(Parent[c])
  BY <1>3, <1>4, AncestorsStep, LeastStep
<1> QED BY <1>3, <1>7, <1>8

\* Ancestors are blocks, have their parents among them, and are in every closed set.
LEMMA AncestorsClosed ==
  ASSUME NEW b \in Blocks
  PROVE  /\ Ancestors[b] \subseteq Blocks /\ b \in Ancestors[b] /\ Closed(Ancestors[b])
         /\ \A S \in SUBSET Blocks : b \in S /\ Closed(S) => Ancestors[b] \subseteq S
<1>1. Ancestors[b] = Least(b)
  BY AncestorsLeast
<1>2. ASSUME NEW c \in Least(b), c # Genesis PROVE Parent[c] \in Least(b)
  <2>1. c \in Blocks /\ Parent[c] \in Blocks
    BY <1>2, BlocksAssumption DEF Least
  <2>2. ASSUME NEW S \in SUBSET Blocks, b \in S, Closed(S) PROVE Parent[c] \in S
    BY <1>2, <2>2 DEF Least, Closed
  <2> QED BY <2>1, <2>2 DEF Least
<1>3. Closed(Least(b))
  BY <1>2 DEF Closed
<1>4. /\ Least(b) \subseteq Blocks /\ b \in Least(b)
      /\ \A S \in SUBSET Blocks : b \in S /\ Closed(S) => Least(b) \subseteq S
  BY DEF Least
<1> QED BY <1>1, <1>3, <1>4

\* An ancestor is lower than the block, unless it is the block.
LEMMA AncestorHeight ==
  ASSUME NEW b \in Blocks, NEW a \in Ancestors[b]
  PROVE  a = b \/ Height[a] < Height[b]
<1> DEFINE S == {c \in Blocks : c = b \/ Height[c] < Height[b]}
<1>1. Closed(S)
  <2> SUFFICES ASSUME NEW c \in S, c # Genesis PROVE Parent[c] \in S
    BY DEF Closed
  <2>1. /\ c \in Blocks /\ Parent[c] \in Blocks /\ Height[c] = Height[Parent[c]] + 1
        /\ Height[c] \in Nat /\ Height[Parent[c]] \in Nat /\ Height[b] \in Nat
    BY BlocksAssumption
  <2> QED BY <2>1
<1>2. S \in SUBSET Blocks /\ b \in S
  OBVIOUS
<1>3. Ancestors[b] \subseteq S
  BY <1>1, <1>2, AncestorsClosed
<1> QED BY <1>3

\* The ancestors of an ancestor are ancestors.
LEMMA AncestorsTransitive ==
  ASSUME NEW b \in Blocks, NEW a \in Ancestors[b]
  PROVE  a \in Blocks /\ Ancestors[a] \subseteq Ancestors[b]
<1>1. Ancestors[b] \in SUBSET Blocks /\ Closed(Ancestors[b])
  BY AncestorsClosed
<1> QED BY <1>1, AncestorsClosed

\* The ancestors of a block are a chain.
LEMMA AncestorsLinear ==
  ASSUME NEW b \in Blocks, NEW a \in Ancestors[b], NEW c \in Ancestors[b]
  PROVE  /\ a \in Ancestors[c] \/ c \in Ancestors[a]
         /\ Height[a] <= Height[c] => a \in Ancestors[c]
<1> DEFINE S == {x \in Blocks : \A e \in Ancestors[b] : x \in Ancestors[e] \/ e \in Ancestors[x]}
<1>1. Closed(S)
  <2> SUFFICES ASSUME NEW x \in S, x # Genesis, NEW e \in Ancestors[b]
               PROVE  Parent[x] \in Blocks /\ (Parent[x] \in Ancestors[e] \/ e \in Ancestors[Parent[x]])
    BY DEF Closed
  <2>1. x \in Blocks /\ Parent[x] \in Blocks /\ e \in Blocks
    BY BlocksAssumption, AncestorsClosed
  <2>2. CASE x \in Ancestors[e]
    BY <2>1, <2>2, AncestorsClosed DEF Closed
  <2>3. CASE e \in Ancestors[x]
    <3>1. e = x \/ e \in Ancestors[Parent[x]]
      BY <2>1, <2>3, AncestorsStep
    <3>2. e = x => Parent[x] \in Ancestors[e]
      BY <2>1, AncestorsClosed DEF Closed
    <3> QED BY <2>1, <3>1, <3>2
  <2> QED BY <2>2, <2>3
<1>2. S \in SUBSET Blocks /\ b \in S
  OBVIOUS
<1>3. Ancestors[b] \subseteq S
  BY <1>1, <1>2, AncestorsClosed
<1>4. a \in Ancestors[c] \/ c \in Ancestors[a]
  BY <1>3
<1>5. a \in Blocks /\ c \in Blocks /\ Height[a] \in Nat /\ Height[c] \in Nat
  BY AncestorsClosed, BlocksAssumption
<1>6. ASSUME Height[a] <= Height[c], c \in Ancestors[a] PROVE a \in Ancestors[c]
  <2>1. c = a
    BY <1>5, <1>6, AncestorHeight
  <2> QED BY <1>6, <2>1
<1> QED BY <1>4, <1>6

\* Every chain starts with the genesis block.
LEMMA GenesisIsAncestor ==
  ASSUME NEW b \in Blocks
  PROVE  Genesis \in Ancestors[b]
<1> DEFINE T == {Height[c] : c \in Ancestors[b]}
<1>1. Ancestors[b] \subseteq Blocks /\ b \in Ancestors[b] /\ Closed(Ancestors[b])
  BY AncestorsClosed
<1>2. T \in SUBSET Nat /\ T # {}
  BY <1>1, BlocksAssumption
<1>3. PICK c \in Ancestors[b] : \A e \in Ancestors[b] : Height[c] <= Height[e]
  <2>1. PICK n \in T : \A m \in T : n <= m
    BY <1>2, LeastNumber
  <2> QED BY <2>1
<1>4. ASSUME c # Genesis PROVE FALSE
  <2>1. Parent[c] \in Ancestors[b] /\ Height[c] = Height[Parent[c]] + 1 /\ Height[Parent[c]] \in Nat
    BY <1>1, <1>4, BlocksAssumption DEF Closed
  <2> QED BY <1>3, <2>1
<1> QED BY <1>4

\* Where the branch of a block leaves the active chain: the blocks of the active chain up to
\* there are in the branch, and no later one is.
LEMMA ForkPoint ==
  ASSUME NEW t \in Blocks, active \in Blocks
  PROVE  /\ ForkHeight(t) \in Nat
         /\ \A b \in Ancestors[active] : b \in Ancestors[t] <=> Height[b] <= ForkHeight(t)
<1> DEFINE F == Ancestors[t] \cap Ancestors[active]
           T == {Height[b] : b \in F}
<1>1. /\ Ancestors[t] \subseteq Blocks /\ Ancestors[active] \subseteq Blocks
      /\ \A b \in Blocks : Height[b] \in Nat
  BY AncestorsClosed, BlocksAssumption
<1>2. T \in SUBSET Nat /\ T # {}
  BY <1>1, GenesisIsAncestor
<1>3. \A n \in T : n <= Height[t]
  <2> SUFFICES ASSUME NEW b \in F PROVE Height[b] <= Height[t]
    OBVIOUS
  <2>1. b = t \/ Height[b] < Height[t]
    BY AncestorHeight
  <2> QED BY <1>1, <2>1
<1>4. Max(T) \in T /\ \A n \in T : n <= Max(T)
  BY <1>1, <1>2, <1>3, MaxOfBounded
<1>5. ForkHeight(t) = Max(T)
  BY DEF ForkHeight
<1>6. PICK f \in F : Height[f] = ForkHeight(t)
  BY <1>4, <1>5
<1>7. ASSUME NEW b \in Ancestors[active], Height[b] <= ForkHeight(t) PROVE b \in Ancestors[t]
  <2>1. b \in Ancestors[f]
    BY <1>6, <1>7, AncestorsLinear
  <2> QED BY <2>1, AncestorsTransitive
<1>8. ASSUME NEW b \in Ancestors[active], b \in Ancestors[t] PROVE Height[b] <= ForkHeight(t)
  BY <1>4, <1>5, <1>8
<1> QED BY <1>2, <1>4, <1>5, <1>7, <1>8

-----------------------------------------------------------------------------
(***************************************************************************)
(* The inductive invariant.  What the PoW node knows is a tree with the    *)
(* active tip as high as any; what a call has learnt of heights remains    *)
(* true, as the tip only rises and nothing is committed meanwhile; and in  *)
(* a calm behaviour every block the node has taken for final is so deep in *)
(* the active chain that no switch of branches drops it.                   *)
(***************************************************************************)
ChainInv ==
  /\ Genesis \in known /\ Closed(known)
  /\ \A b \in known : Height[b] <= Height[active]

CandidateOK(h) == h > HeightFG /\ h + dFG - 1 <= Height[active]

CallInv ==
  /\ call.op = "candidate" => CandidateOK(call.height)
  /\ call.op = "forks" => call.block \in known /\ CandidateOK(Height[call.block])

DeepBelow(b, tip) == OnChain(b, tip) /\ \E d \in Depths : Height[tip] - Height[b] >= d - 1

Deep(b) == DeepBelow(b, active)

CalmInv ==
  calm => /\ \A b \in ({committed, pending} \ {Nil}) \cup proposed : Deep(b)
          /\ call.op = "depth" => Deep(call.block)

IInv == TypeOK /\ dFG \in Depths /\ ChainInv /\ CallInv /\ CalmInv

\* Heights and chains of known blocks are what they are for blocks.
LEMMA KnownBlocks ==
  ASSUME TypeOK, ChainInv
  PROVE  /\ active \in Blocks /\ Height[active] \in Nat /\ dFG \in Nat \ {0}
         /\ Ancestors[active] \subseteq known
         /\ \A b \in known : b \in Blocks /\ Height[b] \in Nat
         /\ HeightFG \in Nat
<1>1. active \in known /\ known \in SUBSET Blocks /\ dFG \in Nat \ {0} /\ active \in Blocks
  BY DEF TypeOK
<1>2. \A b \in Blocks : Height[b] \in Nat
  BY BlocksAssumption
<1>3. Ancestors[active] \subseteq known
  BY <1>1, AncestorsClosed DEF ChainInv
<1>4. HeightFG \in Nat
  BY <1>2 DEF HeightFG, TypeOK
<1> QED BY <1>1, <1>2, <1>3, <1>4

\* If no competing fork is visible at its height, a known block is in the active chain: the
\* highest known block above it would be the tip of such a fork.
LEMMA NoRival ==
  ASSUME TypeOK, ChainInv, NEW b \in known, ~ CompetingFork(Height[b])
  PROVE  b \in Ancestors[active]
<1> SUFFICES ASSUME b \notin Ancestors[active] PROVE FALSE
  OBVIOUS
<1> DEFINE Above == {t \in known : b \in Ancestors[t]}
           T == {Height[t] : t \in Above}
<1>1. /\ active \in Blocks /\ Height[active] \in Nat /\ Genesis \in known
      /\ \A c \in known : c \in Blocks /\ Height[c] \in Nat /\ Height[c] <= Height[active]
  BY KnownBlocks DEF ChainInv
<1>2. b \in Above
  BY <1>1, AncestorsClosed
<1>3. T \in SUBSET Nat /\ T # {} /\ \A n \in T : n <= Height[active]
  BY <1>1, <1>2
<1>4. Max(T) \in T /\ \A n \in T : n <= Max(T)
  BY <1>1, <1>3, MaxOfBounded
<1>5. PICK t \in Above : \A c \in Above : Height[c] <= Height[t]
  <2>1. PICK t \in Above : Height[t] = Max(T)
    BY <1>4
  <2>2. \A c \in Above : Height[c] <= Max(T)
    BY <1>4
  <2> QED BY <2>1, <2>2
<1>6. t \in known /\ t \in Blocks /\ b \in Ancestors[t] /\ t # active
  BY <1>1
<1>7. ASSUME NEW c \in known, c # Genesis, Parent[c] = t PROVE FALSE
  <2>1. c \in Blocks /\ Height[c] = Height[t] + 1 /\ Height[t] \in Nat
    BY <1>1, <1>6, <1>7, BlocksAssumption
  <2>2. b \in Ancestors[c]
    BY <1>6, <1>7, <2>1, AncestorsStep
  <2>3. Height[c] <= Height[t]
    BY <1>5, <2>2
  <2> QED BY <2>1, <2>3
<1>8. t \in OtherTips
  BY <1>6, <1>7 DEF OtherTips
<1>9. Height[t] >= Height[b]
  BY <1>2, <1>5, <1>1
<1>10. ForkHeight(t) < Height[b]
  <2> SUFFICES ASSUME Height[b] <= ForkHeight(t) PROVE FALSE
    BY <1>1, <1>6, ForkPoint
  <2> DEFINE F == Ancestors[t] \cap Ancestors[active]
             U == {Height[c] : c \in F}
  <2>1. /\ U \in SUBSET Nat /\ U # {} /\ \A n \in U : n <= Height[active]
    <3>1. F \subseteq known
      BY KnownBlocks
    <3>2. Genesis \in F
      BY <1>1, <1>6, GenesisIsAncestor
    <3> QED BY <1>1, <3>1, <3>2
  <2>2. Max(U) \in U
    BY <1>1, <2>1, MaxOfBounded
  <2>3. PICK c \in F : Height[c] = ForkHeight(t)
    BY <2>2 DEF ForkHeight
  <2>4. b \in Ancestors[c]
    BY <1>6, <2>3, AncestorsLinear
  <2> QED BY <1>1, <2>4, AncestorsTransitive
<1> QED BY <1>8, <1>9, <1>10 DEF CompetingFork

\* A shallow switch to a higher branch keeps deep blocks, and keeps them deep.
LEMMA DeepStays ==
  ASSUME TypeOK, ChainInv, NEW b \in Blocks, Height[b] > Height[active], Shallow(b), NEW x, Deep(x)
  PROVE  DeepBelow(x, b)
<1>1. PICK d \in Depths : Height[active] - Height[x] >= d - 1
  BY DEF Deep, DeepBelow
<1>2. x \in Ancestors[active] /\ active \in Blocks /\ x \in known
  BY KnownBlocks DEF Deep, DeepBelow, OnChain
<1>3. /\ Height[x] \in Nat /\ Height[active] \in Nat /\ Height[b] \in Nat /\ d \in Nat
      /\ ForkHeight(b) \in Nat
  BY <1>2, KnownBlocks, ForkPoint, BlocksAssumption, DepthsAssumption
<1>4. Height[active] - ForkHeight(b) < d
  BY DEF Shallow
<1>5. Height[x] <= ForkHeight(b)
  BY <1>1, <1>3, <1>4
<1>6. x \in Ancestors[b]
  BY <1>2, <1>5, ForkPoint
<1>7. Height[b] - Height[x] >= d - 1
  BY <1>1, <1>3
<1> QED BY <1>6, <1>7 DEF DeepBelow, OnChain

\* The block LeaderPropose settles on is confirmed, high enough and without a rival.
LEMMA ProposalFinal ==
  ASSUME TypeOK, ChainInv, CallInv, call.op = "forks", ~ CompetingFork(Height[call.block])
  PROVE  /\ call.block \in known /\ Confirmed(call.block)
         /\ Height[call.block] > HeightFG
         /\ \A b \in known : Height[b] = Height[call.block] => b = call.block
<1> DEFINE c == call.block
<1>1. c \in known /\ Height[c] > HeightFG /\ Height[c] + dFG - 1 <= Height[active]
  BY DEF CallInv, CandidateOK
<1>2. /\ active \in Blocks /\ Height[active] \in Nat /\ dFG \in Nat
      /\ \A b \in known : b \in Blocks /\ Height[b] \in Nat
  BY KnownBlocks
<1>3. c \in Ancestors[active]
  BY <1>1, NoRival
<1>4. ASSUME NEW b \in known, Height[b] = Height[c] PROVE b = c
  <2>1. b \in Ancestors[active]
    BY <1>4, NoRival
  <2>2. b \in Ancestors[c]
    BY <1>2, <1>3, <1>4, <2>1, AncestorsLinear
  <2> QED BY <1>1, <1>2, <1>4, <2>2, AncestorHeight
<1>5. Height[active] - Height[c] >= dFG - 1
  BY <1>1, <1>2
<1> QED BY <1>1, <1>3, <1>4, <1>5 DEF Confirmed, OnChain

-----------------------------------------------------------------------------
(***************************************************************************)
(* Every step keeps the invariant.                                         *)
(***************************************************************************)
\* It holds initially.
LEMMA InitIInv ==
  ASSUME Init
  PROVE  IInv
<1>1. /\ known = {Genesis} /\ active = Genesis /\ dFG \in Depths /\ committed = Nil /\ pending = Nil
      /\ proposed = {} /\ call = Idle /\ call.op = "idle" /\ calm = TRUE
  BY DEF Init, Idle
<1>2. TypeOK
  BY <1>1, BlocksAssumption, DepthsAssumption DEF TypeOK, Calls
<1>3. ChainInv
  BY <1>1, BlocksAssumption DEF ChainInv, Closed
<1> QED BY <1>1, <1>2, <1>3 DEF IInv, CallInv, CalmInv

\* The PoW node learns of a block and may switch to its branch.
LEMMA MineStep ==
  ASSUME IInv, Mine
  PROVE  IInv'
<1>0. TypeOK /\ dFG \in Depths /\ ChainInv /\ CallInv /\ CalmInv
  BY DEF IInv
<1>1. PICK b \in Blocks \ known :
        /\ b # Genesis /\ Parent[b] \in known /\ known' = known \cup {b}
        /\ active' = IF Height[b] > Height[active] THEN b ELSE active
        /\ calm' = (calm /\ (active' = b => Shallow(b)))
        /\ dFG' = dFG /\ committed' = committed /\ pending' = pending /\ proposed' = proposed
        /\ call' = call
  BY DEF Mine, stateVars
<1>2. /\ active \in known /\ active \in Blocks /\ Height[active] \in Nat /\ Height[b] \in Nat
      /\ dFG \in Nat \ {0} /\ \A c \in known : c \in Blocks /\ Height[c] \in Nat
  BY <1>0, <1>1, KnownBlocks, BlocksAssumption DEF TypeOK
<1>3. calm' \in BOOLEAN /\ (calm' => calm /\ (active' = b => Shallow(b)))
  BY <1>1, Zenon
<1>4. /\ active' \in known' /\ Height[active'] \in Nat /\ Height[active] <= Height[active']
      /\ Height[b] <= Height[active']
  BY <1>1, <1>2
<1>5. TypeOK'
  BY <1>0, <1>1, <1>3, <1>4 DEF TypeOK
<1>6. ChainInv'
  <2>1. Closed(known')
    BY <1>0, <1>1 DEF ChainInv, Closed
  <2>2. \A c \in known' : Height[c] <= Height[active']
    <3> SUFFICES ASSUME NEW c \in known PROVE Height[c] <= Height[active']
      BY <1>1, <1>4
    <3>1. Height[c] <= Height[active] /\ Height[c] \in Nat
      BY <1>0, <1>2 DEF ChainInv
    <3> QED BY <1>2, <1>4, <3>1
  <2> QED BY <1>0, <1>1, <2>1, <2>2 DEF ChainInv
<1>7. CallInv'
  <2>1. HeightFG' = HeightFG
    BY <1>1 DEF HeightFG
  <2>2. \A h \in Int : CandidateOK(h) => h > HeightFG' /\ h + dFG' - 1 <= Height[active']
    BY <1>1, <1>2, <1>4, <2>1 DEF CandidateOK
  <2>3. call.op = "candidate" => call.height \in Int
    BY <1>0 DEF TypeOK, Calls, Idle
  <2>4. call.op = "forks" => call.block \in known /\ Height[call.block] \in Int
    BY <1>0, <1>2 DEF CallInv
  <2>5. call.op = "candidate" => call.height > HeightFG' /\ call.height + dFG' - 1 <= Height[active']
    BY <1>0, <2>2, <2>3 DEF CallInv
  <2>6. call.op = "forks" => /\ Height[call.block] > HeightFG'
                             /\ Height[call.block] + dFG' - 1 <= Height[active']
    BY <1>0, <2>2, <2>4 DEF CallInv
  <2> QED BY <1>1, <2>4, <2>5, <2>6 DEF CallInv, CandidateOK
<1>8. CalmInv'
  <2> SUFFICES ASSUME calm'
               PROVE  /\ \A x \in ({committed, pending} \ {Nil}) \cup proposed : DeepBelow(x, active')
                      /\ call.op = "depth" => DeepBelow(call.block, active')
    BY <1>1 DEF CalmInv, Deep
  <2>1. calm /\ (active' = b => Shallow(b))
    BY <1>3
  <2>2. ASSUME NEW x, Deep(x) PROVE DeepBelow(x, active')
    <3>1. CASE Height[b] > Height[active]
      <4>1. active' = b /\ Shallow(b)
        BY <1>1, <2>1, <3>1
      <4>2. DeepBelow(x, b)
        BY <1>0, <2>2, <3>1, <4>1, DeepStays
      <4> QED BY <4>1, <4>2
    <3>2. CASE ~ (Height[b] > Height[active])
      <4>1. active' = active
        BY <1>1, <3>2
      <4> QED BY <2>2, <4>1 DEF Deep
    <3> QED BY <3>1, <3>2
  <2>3. /\ \A x \in ({committed, pending} \ {Nil}) \cup proposed : Deep(x)
        /\ call.op = "depth" => Deep(call.block)
    BY <1>0, <2>1 DEF CalmInv
  <2>4. \A x : Deep(x) => DeepBelow(x, active')
    BY <2>2
  <2> QED BY <2>3, <2>4
<1> QED BY <1>0, <1>1, <1>5, <1>6, <1>7, <1>8 DEF IInv

\* A step of the transaction system does not move the PoW chain.
LEMMA TxStep ==
  ASSUME IInv, UNCHANGED powVars, TypeOK', dFG' \in Depths, CallInv',
         calm' => /\ calm
                  /\ \A b \in ({committed', pending'} \ {Nil}) \cup proposed' : Deep(b)
                  /\ call'.op = "depth" => Deep(call'.block)
  PROVE  IInv'
<1>1. active' = active /\ known' = known
  BY DEF powVars
<1>2. ChainInv'
  BY <1>1 DEF IInv, ChainInv
<1>3. CalmInv'
  BY <1>1 DEF CalmInv, Deep, DeepBelow, OnChain
<1> QED BY <1>2, <1>3 DEF IInv

\* The three queries of LeaderPropose.
LEMMA ProposeStep ==
  ASSUME IInv, ProposeTip \/ ProposeCandidate \/ ProposeForkCheck
  PROVE  IInv'
<1>0. TypeOK /\ dFG \in Depths /\ ChainInv /\ CallInv /\ CalmInv
  BY DEF IInv
<1>1. /\ active \in Blocks /\ Height[active] \in Nat /\ dFG \in Nat \ {0} /\ HeightFG \in Nat
      /\ Ancestors[active] \subseteq known /\ \A b \in known : b \in Blocks /\ Height[b] \in Nat
  BY <1>0, KnownBlocks
<1>2. CASE ProposeTip
  <2> DEFINE h == CandidateHeight(Height[active])
  <2>1. /\ h > HeightFG /\ call' = [op |-> "candidate", height |-> h]
        /\ UNCHANGED <<known, active, dFG, committed, pending, proposed, calm>>
    BY <1>2 DEF ProposeTip, powVars, stateVars
  <2>2. h \in Int /\ h + dFG - 1 = Height[active]
    BY <1>1 DEF CandidateHeight
  <2> HIDE DEF h
  <2>3. call' \in Calls /\ call'.op = "candidate" /\ call'.height = h
    BY <2>1, <2>2 DEF Calls
  <2>4. TypeOK'
    BY <1>0, <1>1, <2>1, <2>2, <2>3 DEF TypeOK
  <2>5. CallInv'
    BY <1>1, <2>1, <2>2, <2>3 DEF CallInv, CandidateOK, HeightFG
  <2> QED BY <1>0, <2>1, <2>3, <2>4, <2>5, TxStep DEF powVars, CalmInv
<1>3. CASE ProposeCandidate
  <2>1. PICK b \in Ancestors[active] :
          /\ call.op = "candidate" /\ Height[b] = call.height
          /\ call' = [op |-> "forks", block |-> b]
          /\ UNCHANGED <<known, active, dFG, committed, pending, proposed, calm>>
    BY <1>3 DEF ProposeCandidate, powVars, stateVars
  <2>2. b \in known /\ b \in Blocks
    BY <1>1
  <2>3. call' \in Calls /\ call'.op = "forks" /\ call'.block = b
    BY <2>1, <2>2 DEF Calls
  <2>4. TypeOK'
    BY <1>0, <2>1, <2>3 DEF TypeOK
  <2>5. CallInv'
    BY <1>0, <2>1, <2>2, <2>3 DEF CallInv, CandidateOK, HeightFG
  <2> QED BY <1>0, <2>1, <2>3, <2>4, <2>5, TxStep DEF powVars, CalmInv
<1>4. CASE ProposeForkCheck
  <2>1. /\ call.op = "forks" /\ ~ CompetingFork(Height[call.block])
        /\ pending' = call.block /\ call' = Idle /\ proposed' = proposed \cup {call.block}
        /\ UNCHANGED <<known, active, dFG, committed, calm>>
    BY <1>4 DEF ProposeForkCheck, powVars
  <2>2. call.block \in known /\ call.block \in Blocks /\ Confirmed(call.block)
    BY <1>0, <1>1, <2>1, ProposalFinal
  <2>3. Deep(call.block)
    BY <1>0, <2>2 DEF Deep, DeepBelow, Confirmed
  <2>4. call' \in Calls /\ call'.op = "idle"
    BY <2>1 DEF Calls, Idle
  <2>5. TypeOK'
    BY <1>0, <2>1, <2>2, <2>4 DEF TypeOK
  <2>6. CallInv'
    BY <2>4 DEF CallInv
  <2>7. calm' => /\ calm
                 /\ \A b \in ({committed', pending'} \ {Nil}) \cup proposed' : Deep(b)
    BY <1>0, <2>1, <2>3 DEF CalmInv
  <2> QED BY <1>0, <2>1, <2>4, <2>5, <2>6, <2>7, TxStep DEF powVars
<1> QED BY <1>2, <1>3, <1>4

\* The two queries of FollowerVerify.
LEMMA VerifyStep ==
  ASSUME IInv, VerifyNoChange \/ VerifyActive \/ VerifyDepth
  PROVE  IInv'
<1>0. TypeOK /\ dFG \in Depths /\ ChainInv /\ CallInv /\ CalmInv
  BY DEF IInv
<1>1. CASE VerifyNoChange
  <2>1. /\ call = Idle /\ call.op = "idle" /\ committed # Nil /\ pending' = committed
        /\ UNCHANGED <<known, active, dFG, committed, proposed, call, calm>>
    BY <1>1 DEF VerifyNoChange, powVars, Idle
  <2>2. TypeOK' /\ CallInv'
    BY <1>0, <2>1 DEF TypeOK, CallInv
  <2> QED BY <1>0, <2>1, <2>2, TxStep DEF powVars, CalmInv
<1>2. CASE VerifyActive
  <2>1. PICK b \in known \ {committed} :
          /\ OnChain(b, active) /\ call' = [op |-> "depth", block |-> b]
          /\ calm' = (calm /\ b \in proposed)
          /\ UNCHANGED <<known, active, dFG, committed, pending, proposed>>
    BY <1>2 DEF VerifyActive, powVars, stateVars
  <2>2. calm' \in BOOLEAN /\ (calm' => calm /\ b \in proposed)
    BY <2>1, Zenon
  <2>3. call' \in Calls /\ call'.op = "depth" /\ call'.block = b
    BY <1>0, <2>1 DEF Calls, TypeOK
  <2>4. TypeOK' /\ CallInv'
    BY <1>0, <2>1, <2>2, <2>3 DEF TypeOK, CallInv
  <2>5. calm' => /\ calm
                 /\ \A x \in ({committed', pending'} \ {Nil}) \cup proposed' : Deep(x)
                 /\ Deep(b)
    BY <1>0, <2>1, <2>2 DEF CalmInv
  <2> QED BY <1>0, <2>1, <2>3, <2>4, <2>5, TxStep DEF powVars
<1>3. CASE VerifyDepth
  <2>1. /\ call.op = "depth" /\ pending' = call.block /\ call' = Idle /\ call'.op = "idle"
        /\ UNCHANGED <<known, active, dFG, committed, proposed, calm>>
    BY <1>3 DEF VerifyDepth, powVars, Idle
  <2>2. call.block \in Blocks
    BY <1>0, <2>1 DEF TypeOK, Calls, Idle
  <2>3. TypeOK' /\ CallInv'
    BY <1>0, <2>1, <2>2 DEF TypeOK, CallInv, Calls
  <2>4. calm' => /\ calm
                 /\ \A x \in ({committed', pending'} \ {Nil}) \cup proposed' : Deep(x)
    BY <1>0, <2>1 DEF CalmInv
  <2> QED BY <1>0, <2>1, <2>3, <2>4, TxStep DEF powVars
<1> QED BY <1>1, <1>2, <1>3

\* The other calls.
LEMMA OtherCallStep ==
  ASSUME IInv, Fail \/ Commit \/ Revert \/ UpdateConfig
  PROVE  IInv'
<1>0. TypeOK /\ dFG \in Depths /\ ChainInv /\ CallInv /\ CalmInv
  BY DEF IInv
<1>1. /\ call' = Idle /\ call'.op = "idle" /\ dFG' \in Depths
      /\ committed' \in {committed, pending} /\ (committed' = Nil => committed = Nil)
      /\ pending' \in {pending, Nil}
      /\ UNCHANGED <<known, active, proposed, calm>>
  BY <1>0 DEF Fail, Commit, Revert, UpdateConfig, powVars, stateVars, Idle
<1>2. dFG' \in Nat \ {0}
  BY <1>1, DepthsAssumption
<1>3. TypeOK'
  BY <1>0, <1>1, <1>2 DEF TypeOK, Calls
<1>4. CallInv'
  BY <1>1 DEF CallInv
<1>5. calm' => /\ calm
               /\ \A x \in ({committed', pending'} \ {Nil}) \cup proposed' : Deep(x)
  BY <1>0, <1>1 DEF CalmInv
<1> QED BY <1>1, <1>3, <1>4, <1>5, TxStep DEF powVars

\* The invariant holds for every tree of blocks and all depths.
THEOREM Invariance == Spec => []IInv
<1>1. Init => IInv
  BY InitIInv
<1>2. IInv /\ [Next]_vars => IInv'
  <2> SUFFICES ASSUME IInv, [Next]_vars PROVE IInv'
    OBVIOUS
  <2>1. CASE UNCHANGED vars
    <3>1. UNCHANGED <<known, active, dFG, committed, pending, proposed, call, calm>>
      BY <2>1 DEF vars, powVars, stateVars
    <3>2. TypeOK' /\ CallInv'
      BY <3>1 DEF IInv, TypeOK, CallInv, CandidateOK, HeightFG
    <3> QED BY <3>1, <3>2, TxStep DEF IInv, CalmInv, powVars
  <2> QED BY <2>1, MineStep, ProposeStep, VerifyStep, OtherCallStep DEF Next
<1> QED BY <1>1, <1>2, PTL DEF Spec

\* Every variable keeps its type, and the height of the candidate is positive.
THEOREM TypeCorrect == Spec => []TypeOK
<1>1. IInv => TypeOK
  BY DEF IInv
<1> QED BY <1>1, Invariance, PTL

\* As long as no reorganisation is as deep as some dFG, and followers are asked about
\* candidates only, the committed block is in the active PoW chain (FinalizedStaysActive).
THEOREM FinalizedIsActive == Spec => []FinalizedStaysActive
<1>1. IInv => FinalizedStaysActive
  BY DEF IInv, CalmInv, Deep, DeepBelow, FinalizedStaysActive
<1> QED BY <1>1, Invariance, PTL

\* The three queries of LeaderPropose, at three moments, settle on a block that is final now
\* (LeaderProposalIsFinal), for every tree of blocks and all reorganisations.
THEOREM ProposalIsFinal == Spec => LeaderProposalIsFinal
<1> DEFINE A == call.op = "forks" /\ pending' # pending =>
                  /\ Confirmed(pending')
                  /\ Height[pending'] > HeightFG
                  /\ \A b \in known : Height[b] = Height[pending'] => b = pending'
<1>1. IInv /\ [Next]_vars => [A]_vars
  <2> SUFFICES ASSUME IInv, Next, call.op = "forks", pending' # pending
               PROVE  /\ Confirmed(pending')
                      /\ Height[pending'] > HeightFG
                      /\ \A b \in known : Height[b] = Height[pending'] => b = pending'
    BY SMTT(20)
  <2>1. ProposeForkCheck
    BY DEF Next, Mine, ProposeTip, ProposeCandidate, VerifyNoChange, VerifyActive, VerifyDepth,
           Fail, Commit, Revert, UpdateConfig, stateVars, Idle
  <2>2. pending' = call.block /\ ~ CompetingFork(Height[call.block])
    BY <2>1 DEF ProposeForkCheck
  <2>3. TypeOK /\ ChainInv /\ CallInv
    BY DEF IInv
  <2> QED BY <2>2, <2>3, ProposalFinal
<1> QED BY <1>1, Invariance, PTL DEF Spec, LeaderProposalIsFinal

\* In a calm behaviour the two queries of FollowerVerify, at two moments, accept confirmed
\* blocks only (CalmVerifiedIsConfirmed).
THEOREM CalmVerification == Spec => CalmVerifiedIsConfirmed
<1> DEFINE A == calm /\ call.op = "depth" /\ pending' # pending => Confirmed(pending')
<1>1. ASSUME Next, call.op = "depth", pending' # pending PROVE VerifyDepth
  BY <1>1 DEF Next, Mine, ProposeTip, ProposeCandidate, ProposeForkCheck, VerifyNoChange,
              VerifyActive, Fail, Commit, Revert, UpdateConfig, stateVars, Idle
<1>2. IInv /\ [Next]_vars => [A]_vars
  <2> SUFFICES ASSUME IInv, Next, calm, call.op = "depth", pending' # pending
               PROVE  Confirmed(pending')
    OBVIOUS
  <2>1. VerifyDepth
    BY <1>1
  <2>2. pending' = call.block /\ SufficientlyDeep(call.block)
    BY <2>1 DEF VerifyDepth
  <2>3. OnChain(call.block, active)
    BY DEF IInv, CalmInv, Deep, DeepBelow
  <2> QED BY <2>2, <2>3 DEF Confirmed, SufficientlyDeep
<1> QED BY <1>2, Invariance, PTL DEF Spec, CalmVerifiedIsConfirmed
=============================================================================
