-------------------------- MODULE ObjectQueue_proofs --------------------------
(****************************************************************************)
(* The canvas object queue is a FIFO queue, its list is sound and its       *)
(* length accounts for every call, for any number of goroutines, nodes and  *)
(* objects.  The invariant is IInv of ObjectQueue: one lemma per action     *)
(* says that it keeps the list c[1] .. c[n], or which list it makes of it;  *)
(* what the recursive Reach computes of such a list comes after them.       *)
(****************************************************************************)
EXTENDS ObjectQueue, FiniteSetTheorems, WellFoundedInduction, TLAPS

LEMMA MainIn == Main \in Procs /\ Nil \notin Node
BY QueueAssumption DEF Procs

LEMMA ProcsFinite == IsFiniteSet(Procs)
<1>1. IsFiniteSet({Main}) /\ IsFiniteSet(Goroutines)
  BY FS_Singleton, QueueAssumption
<1> QED BY <1>1, FS_Union DEF Procs

LEMMA TakingCounts == Cardinality(Taking) \in {0, 1}
<1>1. Taking = {} \/ Taking = {Main}
  BY DEF Taking
<1> QED BY <1>1, FS_EmptySet, FS_Singleton

(* The length wraps: adding before or after the modulus is the same.        *)
LEMMA DivMod ==
  ASSUME NEW M \in Nat \ {0}, NEW x \in Int
  PROVE  x \div M \in Int /\ x % M \in 0..(M - 1) /\ x = M * (x \div M) + (x % M)
<1>1. x \div M \in Int
  OBVIOUS
<1>2. x % M \in 0..(M - 1)
  OBVIOUS
<1>3. x = M * (x \div M) + (x % M)
  OBVIOUS
<1> QED BY <1>1, <1>2, <1>3

LEMMA ModUnique ==
  ASSUME NEW M \in Nat \ {0}, NEW q \in Int, NEW r \in 0..(M - 1), NEW y \in Int, y = M * q + r
  PROVE  y % M = r
<1> DEFINE d == (y \div M) - q
<1>1. y \div M \in Int /\ y % M \in 0..(M-1) /\ y = M * (y \div M) + (y % M)
  BY DivMod
<1>2. d \in Int /\ M * (y \div M) = M * q + M * d
  BY <1>1
<1>3. M * d = r - (y % M)
  BY <1>1, <1>2
<1>4. d >= 1 => M * d >= M
  BY <1>2
<1>5. d <= -1 => M * d <= -M
  BY <1>2
<1>6. d = 0
  BY <1>1, <1>2, <1>3, <1>4, <1>5
<1>7. M * d = 0
  BY <1>6
<1> QED BY <1>1, <1>3, <1>7

LEMMA ModAdd ==
  ASSUME NEW M \in Nat \ {0}, NEW x \in Int, NEW d \in Int
  PROVE  ((x % M) + d) % M = (x + d) % M
<1> DEFINE y == (x % M) + d
<1>1. x \div M \in Int /\ x % M \in 0..(M-1) /\ x = M * (x \div M) + (x % M)
  BY DivMod
<1>2. y \in Int
  BY <1>1
<1>3. y \div M \in Int /\ y % M \in 0..(M-1) /\ y = M * (y \div M) + (y % M)
  BY <1>2, DivMod
<1>4. M * (x \div M + y \div M) = M * (x \div M) + M * (y \div M)
  BY <1>1, <1>3
<1>5. x \div M + y \div M \in Int /\ x + d \in Int
  BY <1>1, <1>3
<1>6. x + d = M * (x \div M + y \div M) + (y % M)
  BY <1>1, <1>3, <1>4
<1> HIDE DEF y
<1> DEFINE k == x \div M + y \div M
           z == x + d
           r == y % M
<1> k \in Int /\ z \in Int /\ r \in 0..(M-1) /\ z = M * k + r
  BY <1>3, <1>5, <1>6
<1> HIDE DEF k, z, r
<1>8. z % M = r
  BY ModUnique
<1>7. (x + d) % M = y % M
  BY <1>8 DEF z, r
<1> QED BY <1>7 DEF y
LEMMA LenTurns ==
  ASSUME NEW x \in Int
  PROVE  /\ ((x % LenModulus) + 1) % LenModulus = (x + 1) % LenModulus
         /\ ((x % LenModulus) + (-1)) % LenModulus = (x + (-1)) % LenModulus
<1>1. LenModulus \in Nat \ {0} /\ 1 \in Int /\ -1 \in Int
  BY QueueAssumption
<1> QED BY <1>1, ModAdd, Zenon

-----------------------------------------------------------------------------
(* In's steps that leave the list as it is. *)

LEMMA LoadTailKeeps ==
  ASSUME NEW n \in Nat \ {0}, NEW c \in [1..n -> Node], ListInv(c, n),
         NEW p \in Procs, LoadTail(p)
  PROVE  ListInv(c, n)'
<1> USE DEF ListInv, LoadTail, At, Goto, Set, list, regs
<1>1. Registers'
  BY MainIn DEF Registers, Places, Loaded
<1>2. Linked(c, n)'
  BY DEF Linked
<1>3. TailNear(c, n)'
  BY DEF TailNear
<1>4. Apart(c, n)'
  BY DEF Apart, Registers, Filling, Leaving, On
<1>5. Loaded(c, n)'
  BY MainIn DEF Loaded, Registers, On, TailNear
<1>6. OutLoaded(c, n)'
  BY MainIn DEF OutLoaded, Registers, On, TailNear
<1>7. Counted(n)'
  <2>1. Linking' = Linking /\ Taking' = Taking
    BY DEF Linking, Taking, Registers
  <2> QED BY <2>1 DEF Counted
<1> QED BY <1>1, <1>2, <1>3, <1>4, <1>5, <1>6, <1>7

LEMMA LoadNextKeeps ==
  ASSUME NEW n \in Nat \ {0}, NEW c \in [1..n -> Node], ListInv(c, n),
         NEW p \in Procs, LoadNext(p)
  PROVE  ListInv(c, n)'
<1> USE DEF ListInv, LoadNext, At, Goto, Set, list, regs
<1>1. Registers'
  BY MainIn DEF Registers, Places, Loaded
<1>2. Linked(c, n)'
  BY DEF Linked
<1>3. TailNear(c, n)'
  BY DEF TailNear
<1>4. Apart(c, n)'
  BY DEF Apart, Registers, Filling, Leaving, On
<1>5. Loaded(c, n)'
  BY MainIn DEF Loaded, Registers, On, TailNear
<1>6. OutLoaded(c, n)'
  BY MainIn DEF OutLoaded, Registers, On, TailNear
<1>7. Counted(n)'
  <2>1. Linking' = Linking /\ Taking' = Taking
    BY DEF Linking, Taking, Registers
  <2> QED BY <2>1 DEF Counted
<1> QED BY <1>1, <1>2, <1>3, <1>4, <1>5, <1>6, <1>7

LEMMA AgainKeeps ==
  ASSUME NEW n \in Nat \ {0}, NEW c \in [1..n -> Node], ListInv(c, n),
         NEW p \in Procs, Again(p)
  PROVE  ListInv(c, n)'
<1> USE DEF ListInv, Again, At, Goto, Set, list, regs
<1>1. Registers'
  BY MainIn DEF Registers, Places, Loaded
<1>2. Linked(c, n)'
  BY DEF Linked
<1>3. TailNear(c, n)'
  BY DEF TailNear
<1>4. Apart(c, n)'
  BY DEF Apart, Registers, Filling, Leaving, On
<1>5. Loaded(c, n)'
  BY MainIn DEF Loaded, Registers, On, TailNear
<1>6. OutLoaded(c, n)'
  BY MainIn DEF OutLoaded, Registers, On, TailNear
<1>7. Counted(n)'
  <2>1. Linking' = Linking /\ Taking' = Taking
    BY DEF Linking, Taking, Registers
  <2> QED BY <2>1 DEF Counted
<1> QED BY <1>1, <1>2, <1>3, <1>4, <1>5, <1>6, <1>7

LEMMA CasTailKeeps ==
  ASSUME NEW n \in Nat \ {0}, NEW c \in [1..n -> Node], ListInv(c, n),
         NEW p \in Procs, CasTail(p)
  PROVE  ListInv(c, n)'
<1> USE DEF ListInv, CasTail, At, Goto, Set, list, regs
<1>1. Registers'
  BY MainIn DEF Registers, Places, Loaded
<1>2. Linked(c, n)'
  BY DEF Linked
<1>3. TailNear(c, n)'
  BY MainIn DEF TailNear, Linked, Loaded, Registers
<1>4. Apart(c, n)'
  BY DEF Apart, Registers, Filling, Leaving, On
<1>5. Loaded(c, n)'
  <2>1. tail' \in {tail, c[n]}
    BY MainIn DEF Registers, TailNear, Linked, Loaded
  <2> QED BY <2>1, MainIn DEF Loaded, Registers, On
<1>6. OutLoaded(c, n)'
  <2>1. tail' = tail \/ tail' # head
    BY MainIn DEF Registers, TailNear, Linked, Loaded
  <2> QED BY <2>1, MainIn DEF OutLoaded, Registers, On
<1>7. Counted(n)'
  <2>1. Linking' = Linking /\ Taking' = Taking
    BY DEF Linking, Taking, Registers
  <2> QED BY <2>1 DEF Counted
<1> QED BY <1>1, <1>2, <1>3, <1>4, <1>5, <1>6, <1>7

LEMMA HelpKeeps ==
  ASSUME NEW n \in Nat \ {0}, NEW c \in [1..n -> Node], ListInv(c, n),
         NEW p \in Procs, Help(p)
  PROVE  ListInv(c, n)'
<1> USE DEF ListInv, Help, At, Goto, Set, list, regs
<1>1. Registers'
  BY MainIn DEF Registers, Places, Loaded
<1>2. Linked(c, n)'
  BY DEF Linked
<1>3. TailNear(c, n)'
  BY MainIn DEF TailNear, Linked, Loaded, Registers
<1>4. Apart(c, n)'
  BY DEF Apart, Registers, Filling, Leaving, On
<1>5. Loaded(c, n)'
  <2>1. tail' \in {tail, c[n]}
    BY MainIn DEF Registers, TailNear, Linked, Loaded
  <2> QED BY <2>1, MainIn DEF Loaded, Registers, On
<1>6. OutLoaded(c, n)'
  <2>1. tail' = tail \/ tail' # head
    BY MainIn DEF Registers, TailNear, Linked, Loaded
  <2> QED BY <2>1, MainIn DEF OutLoaded, Registers, On
<1>7. Counted(n)'
  <2>1. Linking' = Linking /\ Taking' = Taking
    BY DEF Linking, Taking, Registers
  <2> QED BY <2>1 DEF Counted
<1> QED BY <1>1, <1>2, <1>3, <1>4, <1>5, <1>6, <1>7

(* Out's steps that leave the list as it is. *)

LEMMA LoadHeadKeeps ==
  ASSUME NEW n \in Nat \ {0}, NEW c \in [1..n -> Node], ListInv(c, n),
         LoadHead
  PROVE  ListInv(c, n)'
<1> USE DEF ListInv, LoadHead, At, Goto, Set, list, regs
<1>1. Registers'
  BY MainIn DEF Registers, Places, OutLoaded, Loaded
<1>2. Linked(c, n)'
  BY DEF Linked
<1>3. TailNear(c, n)'
  BY DEF TailNear
<1>4. Apart(c, n)'
  BY MainIn DEF Apart, Registers, Filling, Leaving, On
<1>5. Loaded(c, n)'
  BY MainIn DEF Loaded, Registers, On, TailNear
<1>6. OutLoaded(c, n)'
  BY MainIn DEF OutLoaded, Registers, On, TailNear, Linked
<1>7. Counted(n)'
  <2>1. Linking' = Linking /\ Taking' = Taking
    BY DEF Linking, Taking, Registers
  <2> QED BY <2>1 DEF Counted
<1> QED BY <1>1, <1>2, <1>3, <1>4, <1>5, <1>6, <1>7

LEMMA OutTailKeeps ==
  ASSUME NEW n \in Nat \ {0}, NEW c \in [1..n -> Node], ListInv(c, n),
         OutTail
  PROVE  ListInv(c, n)'
<1> USE DEF ListInv, OutTail, At, Goto, Set, list, regs
<1>1. Registers'
  BY MainIn DEF Registers, Places, OutLoaded, Loaded
<1>2. Linked(c, n)'
  BY DEF Linked
<1>3. TailNear(c, n)'
  BY DEF TailNear
<1>4. Apart(c, n)'
  BY MainIn DEF Apart, Registers, Filling, Leaving, On
<1>5. Loaded(c, n)'
  BY MainIn DEF Loaded, Registers, On, TailNear
<1>6. OutLoaded(c, n)'
  BY MainIn DEF OutLoaded, Registers, On, TailNear, Linked
<1>7. Counted(n)'
  <2>1. Linking' = Linking /\ Taking' = Taking
    BY DEF Linking, Taking, Registers
  <2> QED BY <2>1 DEF Counted
<1> QED BY <1>1, <1>2, <1>3, <1>4, <1>5, <1>6, <1>7

LEMMA OutNextKeeps ==
  ASSUME NEW n \in Nat \ {0}, NEW c \in [1..n -> Node], ListInv(c, n),
         OutNext
  PROVE  ListInv(c, n)'
<1> USE DEF ListInv, OutNext, At, Goto, Set, list, regs
<1>1. Registers'
  BY MainIn DEF Registers, Places, OutLoaded, Loaded
<1>2. Linked(c, n)'
  BY DEF Linked
<1>3. TailNear(c, n)'
  BY DEF TailNear
<1>4. Apart(c, n)'
  BY MainIn DEF Apart, Registers, Filling, Leaving, On
<1>5. Loaded(c, n)'
  BY MainIn DEF Loaded, Registers, On, TailNear
<1>6. OutLoaded(c, n)'
  BY MainIn DEF OutLoaded, Registers, On, TailNear, Linked
<1>7. Counted(n)'
  <2>1. Linking' = Linking /\ Taking' = Taking
    BY DEF Linking, Taking, Registers
  <2> QED BY <2>1 DEF Counted
<1> QED BY <1>1, <1>2, <1>3, <1>4, <1>5, <1>6, <1>7

LEMMA OutEmptyKeeps ==
  ASSUME NEW n \in Nat \ {0}, NEW c \in [1..n -> Node], ListInv(c, n),
         OutEmpty
  PROVE  ListInv(c, n)'
<1> USE DEF ListInv, OutEmpty, Return, At, Goto, Set, list, regs
<1>1. Registers'
  BY MainIn DEF Registers, Places, OutLoaded, Loaded
<1>2. Linked(c, n)'
  BY DEF Linked
<1>3. TailNear(c, n)'
  BY DEF TailNear
<1>4. Apart(c, n)'
  BY MainIn DEF Apart, Registers, Filling, Leaving, On
<1>5. Loaded(c, n)'
  BY MainIn DEF Loaded, Registers, On, TailNear
<1>6. OutLoaded(c, n)'
  BY MainIn DEF OutLoaded, Registers, On, TailNear, Linked
<1>7. Counted(n)'
  <2>1. Linking' = Linking /\ Taking' = Taking
    BY DEF Linking, Taking, Registers
  <2> QED BY <2>1 DEF Counted
<1> QED BY <1>1, <1>2, <1>3, <1>4, <1>5, <1>6, <1>7

LEMMA OutHelpKeeps ==
  ASSUME NEW n \in Nat \ {0}, NEW c \in [1..n -> Node], ListInv(c, n),
         OutHelp
  PROVE  ListInv(c, n)'
<1> USE DEF ListInv, OutHelp, At, Goto, Set, list, regs
<1>1. Registers'
  BY MainIn DEF Registers, Places, OutLoaded, Loaded
<1>2. Linked(c, n)'
  BY DEF Linked
<1>3. TailNear(c, n)'
  BY MainIn DEF TailNear, Linked, OutLoaded, Registers
<1>4. Apart(c, n)'
  BY DEF Apart, Registers, Filling, Leaving, On
<1>5. Loaded(c, n)'
  <2>1. tail' \in {tail, c[n]}
    BY MainIn DEF Registers, TailNear, Linked, OutLoaded
  <2> QED BY <2>1, MainIn DEF Loaded, Registers, On
<1>6. OutLoaded(c, n)'
  BY MainIn DEF OutLoaded, Registers, On, TailNear
<1>7. Counted(n)'
  <2>1. Linking' = Linking /\ Taking' = Taking
    BY DEF Linking, Taking, Registers
  <2> QED BY <2>1 DEF Counted
<1> QED BY <1>1, <1>2, <1>3, <1>4, <1>5, <1>6, <1>7

LEMMA PutKeeps ==
  ASSUME NEW n \in Nat \ {0}, NEW c \in [1..n -> Node], ListInv(c, n),
         Put
  PROVE  ListInv(c, n)'
<1> USE DEF ListInv, Put, Return, At, Goto, Set, list, regs
<1>1. Registers'
  BY MainIn DEF Registers, Places, Apart, Leaving
<1>2. Linked(c, n)'
  BY DEF Linked
<1>3. TailNear(c, n)'
  BY DEF TailNear
<1>4. Apart(c, n)'
  <2>1. Filling' = Filling /\ Leaving' = {} /\ Main \in Leaving /\ Main \notin Filling
    BY MainIn DEF Filling, Leaving, Registers
  <2>2. /\ own[Main] \in Node \ (On(c, n) \cup free)
        /\ \A q \in Filling : own[q] # own[Main] /\ own'[q] = own[q]
    BY <2>1, MainIn DEF Apart, Registers, Filling
  <2> QED BY <2>1, <2>2 DEF Apart, On
<1>5. Loaded(c, n)'
  BY MainIn DEF Loaded, Registers, On, TailNear
<1>6. OutLoaded(c, n)'
  BY MainIn DEF OutLoaded, Registers, On, TailNear
<1>7. Counted(n)'
  <2>1. Linking' = Linking /\ Taking' = Taking
    BY DEF Linking, Taking, Registers
  <2> QED BY <2>1 DEF Counted
<1> QED BY <1>1, <1>2, <1>3, <1>4, <1>5, <1>6, <1>7

(* The node In takes was with nobody: nobody's register holds it, or it is   *)
(* reused.                                                                  *)
LEMMA GetKeeps ==
  ASSUME NEW n \in Nat \ {0}, NEW c \in [1..n -> Node], ListInv(c, n),
         NEW p \in Procs, Get(p), ~reused'
  PROVE  ListInv(c, n)'
<1> USE DEF ListInv, Get, At, Goto, Set, list, regs
<1>1. Registers'
  BY MainIn DEF Registers, Places
<1>2. Linked(c, n)'
  BY MainIn DEF Linked, Apart, On, Registers
<1>3. TailNear(c, n)'
  BY DEF TailNear
<1>4. Apart(c, n)'
  <2>1. PICK m \in free, e \in Elem :
            /\ free' = free \ {m} /\ own' = [own EXCEPT ![p] = m]
            /\ next' = [next EXCEPT ![m] = Nil] /\ v' = [v EXCEPT ![m] = e]
    OBVIOUS
  <2>2. /\ Filling' = Filling \cup {p} /\ p \notin Filling
        /\ Leaving' = Leaving /\ p \notin Leaving
    BY MainIn DEF Filling, Leaving, Registers
  <2>3. /\ m \in Node /\ m \notin On(c, n)
        /\ \A q \in Filling \cup Leaving : own[q] # m /\ own'[q] = own[q]
    BY <2>1, <2>2 DEF Apart, Registers, Filling, Leaving
  <2>5. own'[p] = m
    BY <2>1 DEF Registers
  <2>4. next'[m] = Nil /\ v'[m] = e /\ \A o \in Node \ {m} : next'[o] = next[o] /\ v'[o] = v[o]
    BY <2>1, <2>3 DEF Registers
  <2> QED BY <2>1, <2>2, <2>3, <2>4, <2>5 DEF Apart, On
<1>5. Loaded(c, n)'
  <2>1. PICK m \in free :
            /\ next' = [next EXCEPT ![m] = Nil] /\ own' = [own EXCEPT ![p] = m]
            /\ \A o \in Procs \ {p} : m \notin {last[o], after[o]}
    OBVIOUS
  <2>2. m \in Node /\ m \notin On(c, n) 
    BY <2>1 DEF Apart, Registers
  <2> QED BY <2>1, <2>2, MainIn DEF Loaded, Registers
<1>6. OutLoaded(c, n)'
  <2>1. PICK m \in free : next' = [next EXCEPT ![m] = Nil] /\ own' = [own EXCEPT ![p] = m]
    OBVIOUS
  <2>2. m # head /\ head \in Node
    BY <2>1 DEF Linked, Apart, On, Registers
  <2>3. next'[head] = next[head] /\ (p # Main => own'[Main] = own[Main] /\ pc'[Main] = pc[Main])
    BY <2>1, <2>2, MainIn DEF Registers
  <2>4. p = Main => pc'[Main] = "loadTail"
    BY DEF Registers
  <2> QED BY <2>3, <2>4 DEF OutLoaded, On
<1>7. Counted(n)'
  <2>1. Linking' = Linking /\ Taking' = Taking
    BY DEF Linking, Taking, Registers
  <2> QED BY <2>1 DEF Counted
<1> QED BY <1>1, <1>2, <1>3, <1>4, <1>5, <1>6, <1>7

(* The length is counted late. *)

LEMMA AddLenKeeps ==
  ASSUME NEW n \in Nat \ {0}, NEW c \in [1..n -> Node], ListInv(c, n),
         NEW p \in Procs, AddLen(p)
  PROVE  ListInv(c, n)'
<1> USE DEF ListInv, AddLen, Return, At, Goto, Set, list, regs
<1>1. Registers'
  BY MainIn DEF Registers, Places, Loaded
<1>2. Linked(c, n)'
  BY DEF Linked
<1>3. TailNear(c, n)'
  BY DEF TailNear
<1>4. Apart(c, n)'
  BY DEF Apart, Registers, Filling, Leaving, On
<1>5. Loaded(c, n)'
  BY MainIn DEF Loaded, Registers, On, TailNear
<1>6. OutLoaded(c, n)'
  BY MainIn DEF OutLoaded, Registers, On, TailNear
<1>7. Counted(n)'
  <2>1. /\ IsFiniteSet(Linking) /\ Cardinality(Linking) \in Nat
        /\ Taking' = Taking /\ Cardinality(Taking) \in {0, 1}
    BY TakingCounts, ProcsFinite, FS_Subset, FS_CardinalityType, MainIn
       DEF Linking, Taking, Registers
  <2>2. Linking' = Linking \ {p} /\ p \in Linking
    BY DEF Linking, Registers
  <2>3. Cardinality(Linking') = Cardinality(Linking) - 1
    BY <2>1, <2>2, FS_RemoveElement
  <2> DEFINE x == n - 1 - Cardinality(Linking) + Cardinality(Taking)
  <2>4. x \in Int /\ len' = ((x % LenModulus) + 1) % LenModulus
    BY <2>1 DEF Counted
  <2>5. n - 1 - Cardinality(Linking') + Cardinality(Taking') = x + 1
    BY <2>1, <2>3
  <2> HIDE DEF x
  <2>6. ((x % LenModulus) + 1) % LenModulus = (x + 1) % LenModulus
    BY <2>4, LenTurns
  <2> QED BY <2>4, <2>5, <2>6 DEF Counted
<1> QED BY <1>1, <1>2, <1>3, <1>4, <1>5, <1>6, <1>7

LEMMA SubLenKeeps ==
  ASSUME NEW n \in Nat \ {0}, NEW c \in [1..n -> Node], ListInv(c, n),
         SubLen
  PROVE  ListInv(c, n)'
<1> USE DEF ListInv, SubLen, At, Goto, Set, list, regs
<1>1. Registers'
  BY MainIn DEF Registers, Places, Loaded
<1>2. Linked(c, n)'
  BY DEF Linked
<1>3. TailNear(c, n)'
  BY DEF TailNear
<1>4. Apart(c, n)'
  BY DEF Apart, Registers, Filling, Leaving, On
<1>5. Loaded(c, n)'
  BY MainIn DEF Loaded, Registers, On, TailNear
<1>6. OutLoaded(c, n)'
  BY MainIn DEF OutLoaded, Registers, On, TailNear
<1>7. Counted(n)'
  <2>1. IsFiniteSet(Linking) /\ Cardinality(Linking) \in Nat /\ Linking' = Linking
    BY ProcsFinite, FS_Subset, FS_CardinalityType, MainIn DEF Linking, Registers
  <2>2. Taking = {Main} /\ Taking' = {}
    BY MainIn DEF Taking, Registers
  <2>3. Cardinality(Taking) = 1 /\ Cardinality(Taking') = 0
    BY <2>2, FS_Singleton, FS_EmptySet
  <2> DEFINE x == n - 1 - Cardinality(Linking) + Cardinality(Taking)
  <2>4. x \in Int /\ len' = ((x % LenModulus) + (-1)) % LenModulus
    BY <2>1, <2>3 DEF Counted
  <2>5. n - 1 - Cardinality(Linking') + Cardinality(Taking') = x + (-1)
    BY <2>1, <2>3
  <2> HIDE DEF x
  <2>6. ((x % LenModulus) + (-1)) % LenModulus = (x + (-1)) % LenModulus
    BY <2>4, LenTurns
  <2> QED BY <2>4, <2>5, <2>6 DEF Counted
<1> QED BY <1>1, <1>2, <1>3, <1>4, <1>5, <1>6, <1>7

(* A node is linked behind all others.                                      *)
LEMMA LinkKeeps ==
  ASSUME NEW n \in Nat \ {0}, NEW c \in [1..n -> Node], ListInv(c, n),
         NEW p \in Procs, CasNext(p), next[last[p]] = Nil,
         NEW d, d = [i \in 1..n+1 |-> IF i <= n THEN c[i] ELSE own[p]]
  PROVE  d \in [1..n+1 -> Node] /\ ListInv(d, n + 1)'
<1> USE DEF At, Goto, Set, list, regs
<1>1. /\ last[p] = c[n] /\ tail = c[n]
      /\ own[p] \in Node /\ own[p] \notin On(c, n) /\ own[p] \notin free
      /\ next[own[p]] = Nil
      /\ p \in Filling /\ pc[p] = "casNext"
  <2>1. p \in Filling /\ pc[p] = "casNext"
    BY DEF CasNext, Filling
  <2>2. last[p] \in On(c, n)
    BY MainIn DEF ListInv, Loaded, CasNext
  <2>3. PICK i \in 1..n : last[p] = c[i]
    BY <2>2 DEF On
  <2>4. i = n
    <3>1. i # n => next[c[i]] = c[i + 1] /\ c[i + 1] \in Node
      BY DEF ListInv, Linked
    <3> QED BY <2>3, <3>1, MainIn
  <2> QED BY <2>1, <2>3, <2>4 DEF ListInv, Loaded, Apart
<1>2. /\ next' = [next EXCEPT ![c[n]] = own[p]]
      /\ pc' = [pc EXCEPT ![p] = "casTail"]
      /\ UNCHANGED <<head, tail, v, len, free, own, last, after>>
  BY <1>1, MainIn DEF CasNext, ListInv, Registers
<1>3. d \in [1..n+1 -> Node] /\ d[n+1] = own[p] /\ \A i \in 1..n : d[i] = c[i]
  BY <1>1
<1>4. On(d, n + 1) = On(c, n) \cup {own[p]}
  BY <1>3 DEF On
<1>5. next'[c[n]] = own[p] /\ \A m \in Node \ {c[n]} : next'[m] = next[m]
  BY <1>2 DEF ListInv, Registers
<1>6. next[c[n]] = Nil /\ c[n] \in Node /\ c[n] \in On(c, n)
  BY DEF ListInv, Linked, On
<1>7. Registers'
  BY <1>1, <1>2 DEF ListInv, Registers, Places
<1>8. Linked(d, n + 1)'
  <2>1. d[1] = head'
    BY <1>2, <1>3 DEF ListInv, Linked
  <2>2. ASSUME NEW i \in 1..n+1
        PROVE  next'[d[i]] = IF i = n + 1 THEN Nil ELSE d[i + 1]
    <3>1. CASE i \in 1..n-1
      <4>1. /\ d[i] = c[i] /\ d[i + 1] = c[i + 1]
            /\ c[i] \in Node \ {c[n]} /\ next[c[i]] = c[i + 1]
        BY <1>3, <3>1 DEF ListInv, Linked
      <4> QED BY <1>5, <3>1, <4>1
    <3>2. next'[d[n]] = d[n + 1] /\ next'[d[n + 1]] = Nil
      BY <1>1, <1>3, <1>5, <1>6
    <3>3. i \in 1..n-1 \/ i = n \/ i = n + 1
      OBVIOUS
    <3> QED BY <3>1, <3>2, <3>3
  <2>3. \A i, j \in 1..n+1 : d[i] = d[j] => i = j
    BY <1>1, <1>3 DEF ListInv, Linked, On
  <2> QED BY <2>1, <2>2, <2>3 DEF Linked
<1>9. TailNear(d, n + 1)'
  BY <1>1, <1>2, <1>3 DEF TailNear
<1>10. Apart(d, n + 1)'
  <2>1. Filling' = Filling \ {p} /\ Leaving' = Leaving /\ p \notin Leaving
    BY <1>1, <1>2 DEF Filling, Leaving, ListInv, Registers
  <2>2. On(d, n + 1) \cap free' = {}
    BY <1>1, <1>2, <1>4 DEF ListInv, Apart
  <2>3. \A q \in Filling' \cup Leaving' :
           /\ q \in (Filling \cup Leaving) \ {p} /\ own'[q] = own[q]
           /\ own'[q] \in Node \ (On(d, n + 1) \cup free')
    BY <1>1, <1>2, <1>4, <2>1 DEF ListInv, Apart
  <2>4. \A q \in Filling' \cup Leaving' : next'[own[q]] = next[own[q]]
    BY <1>2, <1>4, <1>5, <1>6, <2>3
  <2> QED BY <1>2, <2>1, <2>2, <2>3, <2>4 DEF ListInv, Apart, On
<1>11. Loaded(d, n + 1)'
  <2> SUFFICES ASSUME NEW q \in Procs
               PROVE  /\ pc'[q] = "idle" => last[q] = Nil /\ after[q] = Nil
                      /\ pc'[q] \in {"loadNext", "again", "casNext", "casTail", "help"}
                           => last[q] \in Node
                      /\ last[q] # Nil => last[q] \in On(d, n + 1) \/ next'[last[q]] # Nil
                      /\ last[q] # d[n + 1]
                      /\ pc'[q] \in {"again", "help"} => after[q] \in {Nil, next'[last[q]]}
                      /\ pc'[q] = "help" => after[q] # Nil
                      /\ pc'[q] = "casTail" => own[q] \in Node /\ next'[last[q]] = own[q]
    BY <1>2 DEF Loaded, On
  <2>1. last[q] \in Node \cup {Nil}
    BY DEF ListInv, Registers
  <2>2. last[q] # d[n + 1]
    BY <1>1, <1>3, MainIn DEF ListInv, Loaded
  <2>3. last[q] # Nil => last[q] \in On(d, n + 1) \/ next'[last[q]] # Nil
    BY <1>1, <1>4, <1>5, <2>1, MainIn DEF ListInv, Loaded
  <2>4. CASE q = p
    BY <1>1, <1>2, <1>5, <2>2, <2>3, <2>4 DEF ListInv, Registers, Loaded
  <2>5. CASE q # p
    <3>1. pc'[q] = pc[q]
      BY <1>2, <2>5 DEF ListInv, Registers
    <3>2. last[q] = c[n] => /\ pc[q] \notin {"help", "casTail"}
                            /\ pc[q] = "again" => after[q] = Nil
      BY <1>6, MainIn DEF ListInv, Loaded
    <3>3. last[q] \in Node /\ last[q] # c[n] => next'[last[q]] = next[last[q]]
      BY <1>5
    <3> QED BY <2>1, <2>2, <2>3, <3>1, <3>2, <3>3 DEF ListInv, Loaded
  <2> QED BY <2>4, <2>5
<1>12. OutLoaded(d, n + 1)'
  <2>1. /\ head \in Node
        /\ head = c[n] => next[head] = Nil
        /\ head # c[n] => next'[head] = next[head]
    BY <1>5, <1>6 DEF ListInv, Registers
  <2>2. Main # p => pc'[Main] = pc[Main]
    BY <1>2, MainIn DEF ListInv, Registers
  <2>3. Main = p => pc'[Main] = "casTail"
    BY <1>2 DEF ListInv, Registers
  <2> QED BY <1>2, <1>4, <2>1, <2>2, <2>3 DEF ListInv, OutLoaded, On
<1>13. Counted(n + 1)'
  <2>1. /\ IsFiniteSet(Linking) /\ Cardinality(Linking) \in Nat
        /\ Taking' = Taking /\ Cardinality(Taking) \in {0, 1}
    BY <1>1, <1>2, TakingCounts, ProcsFinite, FS_Subset, FS_CardinalityType
       DEF Linking, Taking, ListInv, Registers
  <2>2. Linking' = Linking \cup {p} /\ p \notin Linking
    BY <1>1, <1>2 DEF Linking, ListInv, Registers
  <2>3. Cardinality(Linking') = Cardinality(Linking) + 1
    BY <2>1, <2>2, FS_AddElement
  <2>4. (n + 1) - 1 - Cardinality(Linking') + Cardinality(Taking')
          = n - 1 - Cardinality(Linking) + Cardinality(Taking)
    BY <2>1, <2>3
  <2> QED BY <1>2, <2>4 DEF ListInv, Counted
<1> QED BY <1>3, <1>7, <1>8, <1>9, <1>10, <1>11, <1>12, <1>13 DEF ListInv

(* The head moves by one.                                                   *)
LEMMA OutHeadKeeps ==
  ASSUME NEW n \in Nat \ {0}, NEW c \in [1..n -> Node], ListInv(c, n),
         OutHead,
         NEW d, d = [i \in 1..n-1 |-> c[i + 1]]
  PROVE  /\ n - 1 \in Nat \ {0} /\ d \in [1..n-1 -> Node]
         /\ ListInv(d, n - 1)'
<1> USE DEF At, Goto, Set, list, regs
<1>1. /\ pc[Main] = "outAgain" /\ own[Main] = head /\ tail # head
      /\ after[Main] = next[head] /\ next[head] # Nil
      /\ Main \in Procs
  BY MainIn DEF OutHead, ListInv, OutLoaded
<1>2. /\ head' = next[head]
      /\ pc' = [pc EXCEPT ![Main] = "subLen"]
      /\ UNCHANGED <<tail, next, v, len, free, own, last, after>>
  BY <1>1 DEF OutHead
<1>3. n - 1 \in Nat \ {0} /\ head = c[1] /\ next[head] = c[2]
  BY <1>1 DEF ListInv, Linked
<1>4. d \in [1..n-1 -> Node] /\ \A i \in 1..n-1 : d[i] = c[i + 1]
  BY <1>3
<1>5. On(d, n - 1) = On(c, n) \ {head} /\ head \in On(c, n)
  <2>1. \A i \in 1..n-1 : d[i] \in On(c, n) /\ d[i] # head
    BY <1>3, <1>4 DEF ListInv, Linked, On
  <2>2. ASSUME NEW m \in On(c, n), m # head  PROVE m \in On(d, n - 1)
    <3>1. PICK i \in 1..n : m = c[i]
      BY DEF On
    <3>2. i - 1 \in 1..n-1 /\ d[i - 1] = m
      BY <1>3, <1>4, <2>2, <3>1
    <3> QED BY <3>2 DEF On
  <2>3. head \in On(c, n)
    BY <1>3 DEF On
  <2>4. On(d, n - 1) \subseteq On(c, n) \ {head}
    <3>1. \A m \in On(d, n - 1) : \E i \in 1..n-1 : m = d[i]
      BY DEF On
    <3> QED BY <2>1, <3>1
  <2> QED BY <2>2, <2>3, <2>4
<1>6. Registers'
  BY <1>1, <1>2, <1>3 DEF ListInv, Registers, Places
<1>7. Linked(d, n - 1)'
  <2>1. d[1] = head'
    BY <1>2, <1>3, <1>4
  <2>2. ASSUME NEW i \in 1..n-1
        PROVE  next'[d[i]] = IF i = n - 1 THEN Nil ELSE d[i + 1]
    <3>1. /\ d[i] = c[i + 1] /\ i + 1 \in 1..n
          /\ next[c[i + 1]] = IF i + 1 = n THEN Nil ELSE c[(i + 1) + 1]
      BY <1>3, <1>4 DEF ListInv, Linked
    <3> QED BY <1>2, <1>3, <1>4, <3>1
  <2>3. \A i, j \in 1..n-1 : d[i] = d[j] => i = j
    BY <1>3, <1>4 DEF ListInv, Linked
  <2> QED BY <2>1, <2>2, <2>3 DEF Linked
<1>8. TailNear(d, n - 1)'
  BY <1>1, <1>2, <1>3, <1>4 DEF ListInv, TailNear
<1>9. Apart(d, n - 1)'
  <2>1. Filling' = Filling /\ Leaving' = {Main} /\ Main \notin Filling
    BY <1>1, <1>2 DEF Filling, Leaving, ListInv, Registers
  <2>2. own[Main] = head /\ head \in Node /\ head \notin On(d, n - 1) /\ head \notin free
    BY <1>1, <1>5 DEF ListInv, Registers, Apart
  <2>3. \A q \in Filling : own[q] # head
    BY <1>5 DEF ListInv, Apart
  <2> QED BY <1>1, <1>2, <1>5, <2>1, <2>2, <2>3 DEF ListInv, Apart, On
<1>10. Loaded(d, n - 1)'
  <2>1. d[n - 1] = c[n]
    BY <1>3, <1>4
  <2>2. \A p \in Procs : last[p] # Nil => last[p] \in On(d, n - 1) \/ next[last[p]] # Nil
    BY <1>1, <1>5 DEF ListInv, Loaded
  <2>3. \A p \in Procs \ {Main} : pc'[p] = pc[p]
    BY <1>2 DEF ListInv, Registers
  <2>4. pc'[Main] = "subLen"
    BY <1>1, <1>2 DEF ListInv, Registers
  <2> QED BY <1>2, <2>1, <2>2, <2>3, <2>4 DEF ListInv, Loaded, On
<1>11. OutLoaded(d, n - 1)'
  BY <1>1, <1>2 DEF ListInv, Registers, OutLoaded
<1>12. Counted(n - 1)'
  <2>1. /\ IsFiniteSet(Linking) /\ Cardinality(Linking) \in Nat
        /\ Linking' = Linking
    BY <1>1, <1>2, ProcsFinite, FS_Subset, FS_CardinalityType
       DEF Linking, ListInv, Registers
  <2>2. Taking = {} /\ Taking' = {Main}
    BY <1>1, <1>2 DEF Taking, ListInv, Registers
  <2>3. Cardinality(Taking) = 0 /\ Cardinality(Taking') = 1
    BY <2>2, FS_EmptySet, FS_Singleton
  <2>4. (n - 1) - 1 - Cardinality(Linking') + Cardinality(Taking')
          = n - 1 - Cardinality(Linking) + Cardinality(Taking)
    BY <2>1, <2>3
  <2> QED BY <1>2, <2>4 DEF ListInv, Counted
<1> QED BY <1>3, <1>4, <1>6, <1>7, <1>8, <1>9, <1>10, <1>11, <1>12 DEF ListInv

(* Out never meets a nil where it expects a node.                           *)
LEMMA NoPanic ==
  ASSUME NEW n \in Nat \ {0}, NEW c \in [1..n -> Node], ListInv(c, n)
  PROVE  ~OutPanics
BY DEF ListInv, OutLoaded, OutPanics, At

(* A compare-and-swap of next that fails. *)
LEMMA MissKeeps ==
  ASSUME NEW n \in Nat \ {0}, NEW c \in [1..n -> Node], ListInv(c, n),
         NEW p \in Procs, CasNext(p), next[last[p]] # Nil
  PROVE  ListInv(c, n)'
<1>1. /\ pc[p] = "casNext" /\ pc' = [pc EXCEPT ![p] = "loadTail"]
      /\ UNCHANGED <<head, tail, next, v, len, free, own, last, after>>
  BY DEF CasNext, At, Goto, list, regs
<1> USE <1>1 DEF ListInv
<1>2. Registers' /\ Linked(c, n)' /\ TailNear(c, n)'
  BY DEF Registers, Places, Linked, TailNear
<1>3. Apart(c, n)'
  <2>1. Filling' = Filling /\ Leaving' = Leaving
    BY DEF Filling, Leaving, Registers
  <2> QED BY <2>1 DEF Apart, On
<1>4. Loaded(c, n)'
  BY MainIn DEF Loaded, Registers, On
<1>5. OutLoaded(c, n)'
  BY MainIn DEF OutLoaded, Registers, On
<1>6. Counted(n)'
  <2>1. Linking' = Linking /\ Taking' = Taking
    BY DEF Linking, Taking, Registers
  <2> QED BY <2>1 DEF Counted
<1> QED BY <1>2, <1>3, <1>4, <1>5, <1>6

(* There are no more nodes on the list than there are.                      *)
LEMMA Fits ==
  ASSUME NEW n \in Nat \ {0}, NEW c \in [1..n -> Node],
         \A i, j \in 1..n : c[i] = c[j] => i = j
  PROVE  n \in 1..Hops
<1>1. IsFiniteSet(Node) /\ Hops \in Nat
  BY QueueAssumption, FS_CardinalityType DEF Hops
<1>2. IsFiniteSet(1..n) /\ Cardinality(1..n) = n
  BY FS_Interval
<1>3. ~(Hops < n)
  <2> SUFFICES ASSUME Hops < n PROVE FALSE
    OBVIOUS
  <2>1. \E x, y \in 1..n : x # y /\ c[x] = c[y]
    BY <1>1, <1>2, FS_PigeonHole DEF Hops
  <2> QED BY <2>1
<1> QED BY <1>1, <1>3

-----------------------------------------------------------------------------
(* The invariant is inductive. *)

LEMMA InitIInv == Init => IInv
<1> SUFFICES ASSUME Init PROVE IInv
  OBVIOUS
<1> DEFINE c == [i \in 1..1 |-> head]
<1>1. head \in Node /\ c \in [1..1 -> Node] /\ c[1] = head
  BY DEF Init
<1>2. Linked(c, 1)
  BY <1>1 DEF Linked, Init
<1>3. 1 \in 1..Hops
  <2>1. \A i, j \in 1..1 : c[i] = c[j] => i = j
    OBVIOUS
  <2>2. 1 \in Nat \ {0}
    OBVIOUS
  <2> HIDE DEF c
  <2> QED BY <1>1, <2>1, <2>2, Fits
<1>4. Registers
  BY <1>1 DEF Init, Registers, Places
<1>5. TailNear(c, 1)
  BY <1>1 DEF TailNear, Init
<1>6. Filling = {} /\ Leaving = {} /\ Linking = {} /\ Taking = {}
  BY MainIn DEF Filling, Leaving, Linking, Taking, Init
<1>7. Apart(c, 1)
  BY <1>1, <1>6 DEF Apart, On, Init
<1>8. Loaded(c, 1)
  BY <1>1, MainIn DEF Loaded, Init
<1>9. OutLoaded(c, 1)
  BY MainIn DEF OutLoaded, Init
<1>10. Counted(1)
  <2>1. Cardinality(Linking) = 0 /\ Cardinality(Taking) = 0
    BY <1>6, FS_EmptySet
  <2>2. 0 % LenModulus = 0
    BY QueueAssumption, ModUnique, 0 \in 0..(LenModulus - 1), 0 = LenModulus * 0 + 0
  <2> QED BY <2>1, <2>2 DEF Counted, Init
<1> HIDE DEF c
<1>11. ListInv(c, 1) 
  BY <1>2, <1>4, <1>5, <1>7, <1>8, <1>9, <1>10 DEF ListInv
<1>12. \E n \in 1..Hops : \E d \in [1..n -> Node] : ListInv(d, n)
  BY <1>1, <1>3, <1>11, Zenon
<1> QED BY <1>12 DEF IInv, Init

LEMMA ReusedStays ==
  ASSUME [Next]_vars, reused \in BOOLEAN
  PROVE  reused' \in BOOLEAN /\ (reused => reused')
<1>1. ASSUME NEW p \in Procs, Get(p)
      PROVE  reused' \in BOOLEAN /\ (reused => reused')
  <2>1. PICK n \in free : reused' = (reused \/ \E o \in Procs \ {p} : n \in {last[o], after[o]})
    BY <1>1 DEF Get
  <2> QED BY <2>1, Zenon
<1>2. ASSUME NEW p \in Procs, In(p), ~Get(p)  PROVE reused' = reused
  BY <1>2 DEF In, LoadTail, LoadNext, Again, CasNext, CasTail, AddLen, Help
<1>3. ASSUME Out  PROVE reused' = reused
  BY <1>3 DEF Out, LoadHead, OutTail, OutNext, OutEmpty, OutHelp, OutHead, OutPanics,
              SubLen, Put
<1>4. ASSUME UNCHANGED vars  PROVE reused' = reused
  BY <1>4 DEF vars
<1> QED BY <1>1, <1>2, <1>3, <1>4 DEF Next

(* A step keeps the list as it is, links a node or takes one.               *)
LEMMA ListSteps ==
  ASSUME NEW n \in Nat \ {0}, NEW c \in [1..n -> Node], ListInv(c, n),
         [Next]_vars, ~reused'
  PROVE  \/ ListInv(c, n)'
         \/ \E p \in Procs : CasNext(p) /\ next[last[p]] = Nil
         \/ OutHead
<1>1. ASSUME NEW p \in Procs, In(p)
      PROVE  ListInv(c, n)' \/ (CasNext(p) /\ next[last[p]] = Nil)
  BY <1>1, GetKeeps, LoadTailKeeps, LoadNextKeeps, AgainKeeps, MissKeeps, CasTailKeeps,
     AddLenKeeps, HelpKeeps DEF In
<1>2. ASSUME Out  PROVE ListInv(c, n)' \/ OutHead
  BY <1>2, LoadHeadKeeps, OutTailKeeps, OutNextKeeps, OutEmptyKeeps, OutHelpKeeps,
     NoPanic, SubLenKeeps, PutKeeps DEF Out
<1>3. ASSUME UNCHANGED vars  PROVE ListInv(c, n)'
  BY <1>3 DEF vars, list, regs, ListInv, Registers, Linked, TailNear, Apart, On, Loaded,
              OutLoaded, Counted, Filling, Leaving, Linking, Taking
<1> QED BY <1>1, <1>2, <1>3 DEF Next

LEMMA NextIInv == IInv /\ [Next]_vars => IInv'
<1> SUFFICES ASSUME IInv, [Next]_vars PROVE IInv'
  OBVIOUS
<1>1. reused' \in BOOLEAN /\ (reused => reused')
  BY ReusedStays DEF IInv
<1> SUFFICES ASSUME ~reused'
             PROVE  \E n \in 1..Hops : \E c \in [1..n -> Node] : ListInv(c, n)'
  BY <1>1 DEF IInv
<1>2. PICK n \in 1..Hops : \E c \in [1..n -> Node] : ListInv(c, n)
  BY <1>1 DEF IInv
<1>3. PICK c \in [1..n -> Node] : ListInv(c, n)
  BY <1>2
<1>4. Hops \in Nat /\ n \in Nat \ {0}
  BY QueueAssumption, FS_CardinalityType DEF Hops
<1>5. ASSUME NEW p \in Procs, CasNext(p), next[last[p]] = Nil
      PROVE  \E m \in 1..Hops : \E d \in [1..m -> Node] : ListInv(d, m)'
  <2> PICK d : d = [i \in 1..n+1 |-> IF i <= n THEN c[i] ELSE own[p]]
    OBVIOUS
  <2>1. d \in [1..n+1 -> Node] /\ ListInv(d, n + 1)'
    BY <1>3, <1>4, <1>5, LinkKeeps
  <2>2. n + 1 \in Nat \ {0} /\ \A i, j \in 1..n+1 : d[i] = d[j] => i = j
    BY <1>4, <2>1 DEF ListInv, Linked
  <2>3. n + 1 \in 1..Hops
    BY <2>1, <2>2, Fits, Zenon
  <2> QED BY <2>1, <2>3, Zenon
<1>6. ASSUME OutHead
      PROVE  \E m \in 1..Hops : \E d \in [1..m -> Node] : ListInv(d, m)'
  <2> DEFINE d == [i \in 1..n-1 |-> c[i + 1]]
  <2>1. /\ n - 1 \in Nat \ {0} /\ d \in [1..n-1 -> Node]
        /\ ListInv(d, n - 1)'
    BY <1>3, <1>4, <1>6, OutHeadKeeps
  <2> HIDE DEF d
  <2>2. n - 1 \in 1..Hops
    BY <1>4, <2>1
  <2> QED BY <2>1, <2>2, Zenon
<1> QED BY <1>3, <1>4, <1>5, <1>6, ListSteps

-----------------------------------------------------------------------------
(* Reach follows the list.  What a recursive function computes is found by  *)
(* the least argument at which it would differ.                             *)

LEMMA LeastNat ==
  ASSUME NEW T, T \subseteq Nat, T # {}
  PROVE  \E m \in T : \A k \in T : ~(k < m)
<1>1. PICK m \in T : \A k \in T : ~(<<k, m>> \in OpToRel(<, Nat))
  BY NatLessThanWellFounded, WFMin, Zenon
<1>2. \A k \in T : ~(k < m)
  BY <1>1, Zenon DEF OpToRel
<1> QED BY <1>2, Zenon

LEMMA ReachStep ==
  ASSUME Hops \in Nat,
         NEW g, g = [i \in 0..Hops |->
                      IF i = 0 THEN head ELSE IF g[i-1] = Nil THEN Nil ELSE next[g[i-1]]]
  PROVE  Reach = [i \in 0..Hops |->
                   IF i = 0 THEN head ELSE IF Reach[i-1] = Nil THEN Nil ELSE next[Reach[i-1]]]
BY Zenon DEF Reach

LEMMA ReachIs ==
  ASSUME NEW n \in 1..Hops, NEW c \in [1..n -> Node], ListInv(c, n), Hops \in Nat
  PROVE  \A i \in 0..Hops : Reach[i] = IF i < n THEN c[i + 1] ELSE Nil
<1> DEFINE G == [i \in 0..Hops |-> IF i < n THEN c[i + 1] ELSE Nil]
           Follow(r) == [i \in 0..Hops |->
                          IF i = 0 THEN head ELSE IF r[i-1] = Nil THEN Nil ELSE next[r[i-1]]]
<1>1. \A i \in 0..Hops : G[i] = Follow(G)[i]
  <2> TAKE i \in 0..Hops
  <2>1. CASE i = 0
    BY <2>1 DEF ListInv, Linked
  <2>2. CASE i \in 1..n-1
    BY <2>2, MainIn DEF ListInv, Linked
  <2>3. CASE i = n
    BY <2>3, MainIn DEF ListInv, Linked
  <2>4. CASE i > n
    BY <2>4
  <2> QED BY <2>1, <2>2, <2>3, <2>4
<1>2. G = Follow(G)
  BY <1>1
<1> HIDE DEF G
<1>3. Reach = Follow(Reach)
  BY <1>2, ReachStep
<1>4. \A i \in 0..Hops : Reach[i] = Follow(Reach)[i]
  BY <1>3, Zenon
<1>0. 0..Hops \subseteq Nat
  OBVIOUS
<1> DEFINE T == {i \in 0..Hops : Reach[i] # G[i]}
<1>5. T = {}
  <2> SUFFICES ASSUME T # {} PROVE FALSE
    OBVIOUS
  <2>1. PICK m \in T : \A k \in T : ~(k < m)
    <3>1. T \subseteq Nat
      BY <1>0
    <3> QED BY <3>1, LeastNat, Zenon
  <2>2. m \in 0..Hops /\ Reach[m] # G[m]
    OBVIOUS
  <2>3. m # 0
    BY <1>1, <1>4, <2>2
  <2>4. m - 1 \in 0..Hops /\ m - 1 < m
    BY <2>2, <2>3
  <2>5. Reach[m - 1] = G[m - 1]
    BY <2>1, <2>4
  <2>6. /\ Reach[m] = IF Reach[m - 1] = Nil THEN Nil ELSE next[Reach[m - 1]]
        /\ G[m] = IF G[m - 1] = Nil THEN Nil ELSE next[G[m - 1]]
    BY <1>1, <1>4, <2>2, <2>3
  <2> QED BY <2>2, <2>5, <2>6
<1> QED BY <1>5 DEF G

(* The chain and the contents are the list's.                               *)
ContentsAreListed ==
  \A n \in 1..Hops : \A c \in [1..n -> Node] :
    ListInv(c, n) => /\ Chain = On(c, n)
                     /\ Contents = [i \in 1..n-1 |-> v[c[i + 1]]]

LEMMA ListedContents == ContentsAreListed
<1> SUFFICES ASSUME NEW n \in 1..Hops, NEW c \in [1..n -> Node], ListInv(c, n)
             PROVE  /\ Chain = On(c, n)
                    /\ Contents = [i \in 1..n-1 |-> v[c[i + 1]]]
  BY DEF ContentsAreListed
<1>1. Hops \in Nat
  BY QueueAssumption, FS_CardinalityType DEF Hops
<1>2. \A i \in 0..Hops : Reach[i] = IF i < n THEN c[i + 1] ELSE Nil
  BY <1>1, ReachIs
<1>3. Chain = On(c, n)
  <2>1. On(c, n) \subseteq Chain
    <3> SUFFICES ASSUME NEW i \in 1..n PROVE c[i] \in Chain
      BY DEF On
    <3>1. i - 1 \in 0..Hops /\ i - 1 < n /\ Reach[i - 1] = c[i]
      BY <1>1, <1>2
    <3> QED BY <3>1, MainIn DEF Chain
  <2>2. \A i \in 0..Hops : Reach[i] \in On(c, n) \cup {Nil}
    BY <1>1, <1>2 DEF On
  <2> QED BY <2>1, <2>2 DEF Chain
<1>4. {i \in 1..Hops : Reach[i] # Nil} = 1..n-1
  <2>1. \A i \in 1..Hops : Reach[i] # Nil <=> i < n
    BY <1>1, <1>2, MainIn
  <2> QED BY <1>1, <2>1
<1>5. Cardinality(1..n-1) = n - 1
  BY <1>1, FS_Interval
<1>6. Contents = [i \in 1..n-1 |-> v[Reach[i]]]
  BY <1>4, <1>5 DEF Contents
<1>7. \A i \in 1..n-1 : Reach[i] = c[i + 1]
  BY <1>1, <1>2
<1> QED BY <1>3, <1>6, <1>7

LEMMA HopsNat == Hops \in Nat
BY QueueAssumption, FS_CardinalityType DEF Hops

-----------------------------------------------------------------------------
(* The invariant, and what a run of TLC checks of it.                       *)

(* As long as no node is handed out under an In that still compares with    *)
(* it, the nodes behind the head are a list without a cycle, apart from the *)
(* pool and from the nodes the goroutines hold, and what each goroutine has *)
(* loaded is as old as its place allows, for any number of goroutines and   *)
(* of nodes.                                                                *)
THEOREM Inductive == Spec => []IInv
<1>1. Init => IInv
  BY InitIInv
<1>2. IInv /\ [Next]_vars => IInv'
  BY NextIInv
<1> QED BY <1>1, <1>2, PTL DEF Spec

(* Out never finds a nil where it expects a node, the tail is at most one   *)
(* node behind the end, and no node of the list is in the pool.             *)
THEOREM ListStaysSound == Spec => []ListIsSound
<1>1. IInv => ListIsSound
  <2> SUFFICES ASSUME NEW n \in 1..Hops, NEW c \in [1..n -> Node], ListInv(c, n)
               PROVE  /\ tail \in Chain
                      /\ next[tail] = Nil \/ next[next[tail]] = Nil
                      /\ Chain \cap free = {}
                      /\ ~At(Main, "panicked")
    BY DEF IInv, ListIsSound
  <2>1. Chain = On(c, n)
    BY ListedContents DEF ContentsAreListed
  <2>2. n \in Nat \ {0}
    BY HopsNat
  <2>3. tail \in On(c, n)
    BY <2>2 DEF ListInv, TailNear, On
  <2>4. next[tail] = Nil \/ next[next[tail]] = Nil
    BY <2>2, MainIn DEF ListInv, TailNear, Linked
  <2>5. pc[Main] # "panicked"
    BY MainIn DEF ListInv, Registers, Places
  <2> QED BY <2>1, <2>3, <2>4, <2>5 DEF ListInv, Apart, At
<1> QED BY <1>1, Inductive, PTL

(* The length differs from what the queue holds by the calls that have      *)
(* linked or taken a node and not counted it, also where it wraps below 0.  *)
THEOREM LenIsAccountable == Spec => []LenCounts
<1>1. IInv => LenCounts
  <2> SUFFICES ASSUME NEW n \in 1..Hops, NEW c \in [1..n -> Node], ListInv(c, n)
               PROVE  LET linked == Cardinality({p \in Procs : pc[p] \in {"casTail", "addLen"}})
                          taken == IF At(Main, "subLen") THEN 1 ELSE 0
                      IN  len = (Len(Contents) - linked + taken) % LenModulus
    BY DEF IInv, LenCounts
  <2>1. n \in Nat \ {0} /\ Contents = [i \in 1..n-1 |-> v[c[i + 1]]]
    BY HopsNat, ListedContents DEF ContentsAreListed
  <2>2. Len(Contents) = n - 1
    BY <2>1
  <2>3. Cardinality(Taking) = IF At(Main, "subLen") THEN 1 ELSE 0
    <3>1. Taking = IF At(Main, "subLen") THEN {Main} ELSE {}
      BY DEF Taking, At
    <3> QED BY <3>1, FS_EmptySet, FS_Singleton
  <2> QED BY <2>2, <2>3 DEF ListInv, Counted, Linking
<1> QED BY <1>1, Inductive, PTL

LEMMA TailShifts ==
  ASSUME NEW S, NEW s \in Seq(S), NEW k \in Nat, Len(s) = k + 1
  PROVE  Tail(s) = [i \in 1..k |-> s[i + 1]]
<1>1. Tail(s) \in Seq(S) /\ Len(Tail(s)) = k
  OBVIOUS
<1>2. \A i \in 1..k : Tail(s)[i] = s[i + 1]
  OBVIOUS
<1> DEFINE t == Tail(s)
<1> HIDE DEF t
<1>3. t \in Seq(S) => t = [i \in 1..Len(t) |-> t[i]]
  OBVIOUS
<1>4. t = [i \in 1..k |-> t[i]]
  BY <1>1, <1>3 DEF t
<1>5. \A i \in 1..k : t[i] = s[i + 1]
  BY <1>2 DEF t
<1>6. t = [i \in 1..k |-> s[i + 1]]
  BY <1>4, <1>5
<1> QED BY <1>6 DEF t

LEMMA ListedKeepTheirElement ==
  ASSUME NEW n \in Nat \ {0}, NEW c \in [1..n -> Node], ListInv(c, n), [Next]_vars
  PROVE  \A i \in 1..n : v'[c[i]] = v[c[i]]
<1>1. ASSUME NEW p \in Procs, Get(p)  PROVE \A i \in 1..n : v'[c[i]] = v[c[i]]
  <2>1. PICK m \in free, e \in Elem : v' = [v EXCEPT ![m] = e]
    BY <1>1 DEF Get
  <2> QED BY <2>1 DEF ListInv, Apart, On, Registers
<1>2. ASSUME NEW p \in Procs, In(p), ~Get(p)  PROVE v' = v
  BY <1>2 DEF In, LoadTail, LoadNext, Again, CasNext, CasTail, AddLen, Help, list
<1>3. ASSUME Out  PROVE v' = v
  BY <1>3 DEF Out, LoadHead, OutTail, OutNext, OutEmpty, OutHelp, OutHead, OutPanics,
              SubLen, Put, list
<1>4. ASSUME UNCHANGED vars  PROVE v' = v
  BY <1>4 DEF vars, list
<1> QED BY <1>1, <1>2, <1>3, <1>4 DEF Next

(* The queue implements the FIFO queue: linking a node is the abstract Put  *)
(* of what it holds, moving the head the abstract Take, and no other step   *)
(* of an In or of an Out changes what is in the queue.                      *)
THEOREM QueueIsFifo == Spec => IsFifo
<1>1. IInv /\ IInv' /\ [Next]_vars => [reused' \/ F!FifoNext]_Contents
  <2> SUFFICES ASSUME IInv, IInv', [Next]_vars, ~reused'
               PROVE  F!FifoNext \/ Contents' = Contents
    OBVIOUS
  <2>0. ~reused
    BY ReusedStays DEF IInv
  <2>1. PICK n \in 1..Hops : \E c \in [1..n -> Node] : ListInv(c, n)
    BY <2>0 DEF IInv
  <2>2. PICK c \in [1..n -> Node] : ListInv(c, n)
    BY <2>1
  <2>3. n \in Nat \ {0}
    BY HopsNat
  <2>4. Contents = [i \in 1..n-1 |-> v[c[i + 1]]]
    BY <2>2, ListedContents DEF ContentsAreListed
  <2>5. ContentsAreListed'
    BY ListedContents, PTL
  <2>6. \A i \in 1..n : v'[c[i]] = v[c[i]]
    BY <2>2, <2>3, ListedKeepTheirElement
  <2>7. ASSUME ListInv(c, n)'  PROVE Contents' = Contents
    <3>1. Contents' = [i \in 1..n-1 |-> v'[c[i + 1]]]
      BY <2>5, <2>7 DEF ContentsAreListed, Hops
    <3> QED BY <2>3, <2>4, <2>6, <3>1
  <2>8. ASSUME NEW p \in Procs, CasNext(p), next[last[p]] = Nil  PROVE F!FifoNext
    <3>0. PICK d : d = [i \in 1..n+1 |-> IF i <= n THEN c[i] ELSE own[p]]
      OBVIOUS
    <3>1. d \in [1..n+1 -> Node] /\ ListInv(d, n + 1)'
      BY <2>2, <2>3, <2>8, <3>0, LinkKeeps
    <3>2. n + 1 \in 1..Hops
      <4>1. n + 1 \in Nat \ {0} /\ \A i, j \in 1..n+1 : d[i] = d[j] => i = j
        BY <2>3, <3>1 DEF ListInv, Linked
      <4> QED BY <3>1, <4>1, Fits, Zenon
    <3>3. Contents' = [i \in 1..(n+1)-1 |-> v'[d[i + 1]]]
      BY <2>5, <3>1, <3>2 DEF ContentsAreListed, Hops
    <3>4. v' = v /\ v[own[p]] \in Elem
      BY <2>2, <2>8 DEF CasNext, ListInv, Apart, Filling, At
    <3>5. /\ \A i \in 1..n-1 : v'[d[i + 1]] = v[c[i + 1]]
          /\ v'[d[n + 1]] = v[own[p]]
      BY <2>3, <3>0, <3>4
    <3>6. Contents \in Seq(Elem \cup {Nil}) /\ Len(Contents) = n - 1
      BY <2>2, <2>3, <2>4 DEF ListInv, Registers
    <3>7. Contents' = Append(Contents, v[own[p]])
      BY <2>3, <2>4, <3>3, <3>5, <3>6
    <3> QED BY <3>4, <3>7 DEF F!FifoNext, F!Put
  <2>9. ASSUME OutHead  PROVE F!FifoNext
    <3>0. PICK d : d = [i \in 1..n-1 |-> c[i + 1]]
      OBVIOUS
    <3>1. n - 1 \in Nat \ {0} /\ d \in [1..n-1 -> Node] /\ ListInv(d, n - 1)'
      BY <2>2, <2>3, <2>9, <3>0, OutHeadKeeps
    <3>2. n - 1 \in 1..Hops
      BY HopsNat, <3>1
    <3>3. Contents' = [i \in 1..(n-1)-1 |-> v'[d[i + 1]]]
      BY <2>5, <3>1, <3>2 DEF ContentsAreListed, Hops
    <3>4. v' = v
      BY <2>9 DEF OutHead
    <3>5. \A i \in 1..n-2 : v'[d[i + 1]] = v[c[(i + 1) + 1]]
      BY <3>0, <3>1, <3>4
    <3>6. Contents \in Seq(Elem \cup {Nil}) /\ Len(Contents) = n - 1
      BY <2>2, <2>3, <2>4 DEF ListInv, Registers
    <3>7. Contents # <<>>
      BY <3>1, <3>6
    <3>8. Contents' = Tail(Contents)
      <4>1. Tail(Contents) = [i \in 1..n-2 |-> Contents[i + 1]]
        <5>1. n - 2 \in Nat /\ Len(Contents) = (n - 2) + 1
          BY <3>1, <3>6
        <5> QED BY <3>6, <5>1, TailShifts, Zenon
      <4>2. \A i \in 1..n-2 : Contents[i + 1] = v[c[(i + 1) + 1]]
        BY <2>4, <3>1
      <4>3. (n - 1) - 1 = n - 2
        BY <3>1
      <4> QED BY <3>3, <3>5, <4>1, <4>2, <4>3
    <3> QED BY <3>7, <3>8 DEF F!FifoNext, F!Take
  <2> QED BY <2>2, <2>3, <2>7, <2>8, <2>9, ListSteps
<1> QED BY <1>1, Inductive, PTL DEF Spec, IsFifo
=============================================================================
