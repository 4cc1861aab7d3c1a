------------------------ MODULE HandlerRegisterProofs ------------------------
(***************************************************************************)
(* What the mutex of the handler register is good for, for all threads,    *)
(* calls, ids and sizes of the array.                                      *)
(***************************************************************************)
EXTENDS HandlerRegister, WellFoundedInduction, TLAPS

(* The mutex has an owner exactly while it is locked, and a client between *)
(* the two steps of registerHandler is its owner and about to write the    *)
(* last entry.                                                             *)
MutexInv ==
  /\ owner = None <=> count = 0
  /\ \A c \in Client :
       /\ call[c] >= 1
       /\ pc[c] = "claimed" =>
            /\ owner = c
            /\ claimed[c] = handlerCtr - 1
            /\ call[c] <= Len(script[c])

(* At most one entry too many is counted, and that one is being written or *)
(* has been.                                                               *)
CtrBound ==
  /\ handlerCtr <= Handlers + 1
  /\ handlerCtr = Handlers + 1
       => corrupted \/ \E c \in Client : pc[c] = "claimed"

RegisterInv == TypeOK /\ MutexInv /\ CtrBound

(* A set of numbers that is not empty has a least one.                     *)
Less == {s \in Nat \X Nat : s[1] < s[2]}

LEMMA LeastExists ==
  ASSUME NEW E, E \subseteq Nat, E # {}
  PROVE  \E n \in E : \A j \in E : n <= j
<1>1. IsWellFoundedOn(Less, Nat)
  BY NatLessThanWellFounded DEF OpToRel, Less
<1>2. PICK n \in E : \A j \in E : ~ (<<j, n>> \in Less)
  BY <1>1, WFMin
<1>3. \A j \in E : ~ (j < n)
  BY <1>2 DEF Less
<1> QED
  BY <1>3

(* A look-up that finds an id gives one of the entries that are counted.   *)
LEMMA EntryFound ==
  ASSUME NEW id, Found(id), handlerCtr \in Nat
  PROVE  /\ (CHOOSE i \in Entries(id) : \A j \in Entries(id) : i <= j)
              \in 0 .. handlerCtr - 1
         /\ handlerCtr >= 1
<1>1. Entries(id) \subseteq 0 .. handlerCtr - 1 /\ Entries(id) # {}
  BY DEF Entries, Found
<1>2. \E i \in Entries(id) : \A j \in Entries(id) : i <= j
  BY <1>1, LeastExists
<1> QED
  BY <1>1, <1>2

(* A call of a client's script is a call. *)
LEMMA CurrentIsCall ==
  ASSUME TypeOK, NEW c \in Client, call[c] >= 1, call[c] <= Len(script[c])
  PROVE  Current(c) \in Call
<1>1. script[c] \in Seq(Call) /\ call[c] \in Nat
  BY ConstantsAssumption DEF TypeOK
<1> QED
  BY <1>1 DEF Current

(* Whatever a client does keeps the types, *)
LEMMA StepType ==
  ASSUME RegisterInv, NEW c \in Client, ~ corrupted, Step(c), UNCHANGED script
  PROVE  TypeOK'
<1> USE DEF RegisterInv
<1>a. None \notin Client /\ None \notin InstanceId /\ Handlers \in Nat
  BY ConstantsAssumption
<1>b. call[c] \in Nat /\ call[c] >= 1 /\ count \in Nat /\ handlerCtr \in Nat
  BY DEF TypeOK, MutexInv
<1>c. ASSUME Return(c)
      PROVE  call' \in [Client -> Nat] /\ pc' \in [Client -> {"idle", "claimed"}]
  BY <1>b, <1>c DEF Return, TypeOK
<1>d. ASSUME Lock(c)
      PROVE  owner' \in Client \cup {None} /\ count' \in Nat
  BY <1>b, <1>d DEF Lock
<1>1. CASE RegisterTwice(c)
  BY <1>1, <1>c, <1>d DEF RegisterTwice, TypeOK
<1>2. CASE RegisterClaim(c)
  BY <1>2, <1>b, <1>d DEF RegisterClaim, TypeOK, Claim
<1>3. CASE RegisterStore(c)
  <2>1. Current(c) \in Call
    BY <1>3, CurrentIsCall DEF RegisterStore, MutexInv
  <2>2. slots' \in [-1 .. Handlers -> Slot] /\ present' \subseteq InstanceId
    BY <1>3, <2>1 DEF RegisterStore, TypeOK, Slot, Call, Target
  <2>3. owner' \in Client \cup {None} /\ count' \in Nat
    <3>1. count # 0
      BY <1>3, <1>a DEF RegisterStore, MutexInv
    <3> QED
      BY <1>3, <1>b, <3>1 DEF RegisterStore, Unlock, TypeOK
  <2>4. corrupted' \in BOOLEAN
    BY <1>3 DEF RegisterStore, Outside, TypeOK
  <2> QED
    BY <1>3, <1>c, <2>2, <2>3, <2>4 DEF RegisterStore, TypeOK
<1>4. CASE Unregister(c)
  <2> DEFINE i == CHOOSE i \in Entries(Current(c).id) :
                    \A j \in Entries(Current(c).id) : i <= j
  <2>1. i \in 0 .. handlerCtr - 1 /\ handlerCtr >= 1
    BY <1>4, <1>b, EntryFound DEF Unregister
  <2>2. /\ slots' = Shifted(i)
        /\ corrupted' = (corrupted \/ (i < handlerCtr - 1 /\ Outside(i - 1)))
    BY <1>4 DEF Unregister
  <2> HIDE DEF i
  <2>3. slots[i] \in Slot
    <3>1. i \in -1 .. Handlers
      BY <2>1, <1>a, <1>b DEF CtrBound
    <3> QED
      BY <3>1 DEF TypeOK
  <2>4. slots' \in [-1 .. Handlers -> Slot] /\ corrupted' \in BOOLEAN
    BY <2>2, <2>3 DEF Shifted, TypeOK, Outside
  <2>5. handlerCtr' \in Nat /\ present' \subseteq InstanceId
    BY <1>4, <1>b, <2>1 DEF Unregister, CtrAfterRemoval, TypeOK
  <2> QED
    BY <1>4, <1>c, <1>d, <2>4, <2>5 DEF Unregister, TypeOK
<1>5. CASE UnregisterUnknown(c)
  BY <1>5, <1>c DEF UnregisterUnknown, TypeOK
<1> QED
  BY <1>1, <1>2, <1>3, <1>4, <1>5 DEF Step

(* and keeps the mutex and the bound.                                      *)
LEMMA StepMutex ==
  ASSUME RegisterInv, NEW c \in Client, ~ corrupted, Step(c), UNCHANGED script
  PROVE  MutexInv' /\ CtrBound'
<1> USE DEF RegisterInv
<1>a. None \notin Client /\ Handlers \in Nat
  BY ConstantsAssumption
<1>b. /\ call \in [Client -> Nat] /\ count \in Nat /\ handlerCtr \in Nat
      /\ pc \in [Client -> {"idle", "claimed"}] /\ claimed \in [Client -> Nat]
  BY DEF TypeOK
<1>c. ASSUME NEW d \in Client, pc[d] = "claimed", owner \in {None, c}, pc[c] = "idle"
      PROVE  FALSE
  BY <1>a, <1>c DEF MutexInv
<1>1. CASE RegisterTwice(c) \/ Unregister(c)
  <2>1. /\ pc[c] = "idle" /\ Lock(c) /\ Return(c) /\ claimed' = claimed
        /\ handlerCtr' <= handlerCtr /\ handlerCtr' \in Int
        /\ handlerCtr <= Handlers
    <3>1. pc[c] = "idle" /\ Lock(c) /\ Return(c) /\ claimed' = claimed
      BY <1>1 DEF RegisterTwice, Unregister, Calls
    <3>2. handlerCtr <= Handlers
      BY <3>1, <1>a, <1>b, <1>c DEF CtrBound, Lock
    <3>3. handlerCtr' = handlerCtr \/ handlerCtr' = handlerCtr - 1
      BY <1>1 DEF RegisterTwice, Unregister, CtrAfterRemoval
    <3> QED
      BY <3>1, <3>2, <3>3, <1>b
  <2>2. owner' = c /\ count' = count + 1
    BY <2>1 DEF Lock
  <2>3. \A d \in Client : pc'[d] = "idle" /\ call'[d] >= 1
    BY <2>1, <1>b, <1>c DEF Lock, Return, MutexInv
  <2>4. handlerCtr' <= Handlers
    BY <2>1, <1>a, <1>b DEF CtrBound
  <2>5. MutexInv'
    BY <2>2, <2>3, <1>a, <1>b DEF MutexInv
  <2>6. CtrBound'
    BY <2>1, <2>4, <1>a DEF CtrBound
  <2> QED
    BY <2>5, <2>6
<1>2. CASE RegisterClaim(c)
  <2>1. handlerCtr <= Handlers
    BY <1>2, <1>a, <1>b, <1>c DEF RegisterClaim, Calls, CtrBound, Lock
  <2>2. \A d \in Client : d # c => pc[d] # "claimed"
    BY <1>2, <1>c DEF RegisterClaim, Calls, Lock
  <2>3. pc'[c] = "claimed" /\ claimed'[c] = handlerCtr' - 1 /\ owner' = c
    BY <1>2, <1>b DEF RegisterClaim, Claim, Lock
  <2>4. call'[c] <= Len(script'[c]) /\ count' = count + 1 /\ call' = call
    BY <1>2 DEF RegisterClaim, Calls, Lock
  <2>5. \A d \in Client : d # c => pc'[d] = pc[d]
    BY <1>2, <1>b DEF RegisterClaim
  <2>6. MutexInv'
    BY <2>2, <2>3, <2>4, <2>5, <1>a, <1>b DEF MutexInv
  <2>7. CtrBound'
    BY <1>2, <2>1, <2>3, <1>a, <1>b DEF RegisterClaim, CtrBound
  <2> QED
    BY <2>6, <2>7
<1>3. CASE RegisterStore(c)
  <2>1. owner = c /\ claimed[c] = handlerCtr - 1 /\ count # 0
    BY <1>3, <1>a DEF RegisterStore, MutexInv
  <2>2. \A d \in Client : pc'[d] = "idle" /\ call'[d] >= 1
    BY <1>3, <2>1, <1>b DEF RegisterStore, Return, MutexInv
  <2>3. owner' = None <=> count' = 0
    BY <1>3, <2>1, <1>a, <1>b DEF RegisterStore, Unlock
  <2>4. handlerCtr' = Handlers + 1 => corrupted'
    <3>1. handlerCtr' = Handlers + 1 => Outside(claimed[c])
      BY <1>3, <2>1, <1>a, <1>b DEF RegisterStore, Outside
    <3>2. corrupted' = (corrupted \/ Outside(claimed[c]))
      BY <1>3 DEF RegisterStore
    <3> QED
      BY <3>1, <3>2, Zenon
  <2> QED
    BY <1>3, <2>2, <2>3, <2>4 DEF RegisterStore, MutexInv, CtrBound
<1>4. CASE UnregisterUnknown(c)
  <2>1. /\ \A d \in Client : pc'[d] = "idle" /\ call'[d] >= 1
        /\ \A d \in Client : pc[d] # "claimed"
    BY <1>4, <1>b, <1>c DEF UnregisterUnknown, Calls, Return, MutexInv
  <2> QED
    BY <1>4, <2>1 DEF UnregisterUnknown, MutexInv, CtrBound
<1> QED
  BY <1>1, <1>2, <1>3, <1>4 DEF Step

LEMMA InitRegister == Init => RegisterInv
<1> SUFFICES ASSUME Init PROVE RegisterInv
  OBVIOUS
<1>1. Unwritten \in Slot
  BY DEF Unwritten, Slot, Target
<1>2. TypeOK
  BY <1>1, ConstantsAssumption DEF Init, TypeOK
<1> QED
  BY <1>2, ConstantsAssumption DEF Init, RegisterInv, MutexInv, CtrBound

LEMMA NextRegister == RegisterInv /\ [Next]_vars => RegisterInv'
<1> SUFFICES ASSUME RegisterInv, [Next]_vars PROVE RegisterInv'
  OBVIOUS
<1>1. CASE Next
  BY <1>1, StepType, StepMutex DEF Next, Turn, RegisterInv
<1>2. CASE UNCHANGED vars
  BY <1>2 DEF vars, RegisterInv, TypeOK, MutexInv, CtrBound
<1> QED
  BY <1>1, <1>2

(* The variables of the register keep their types, whatever its clients    *)
(* call: no entry outside the memory around the array is ever read.        *)
THEOREM TypesHold == Spec => []TypeOK
<1>1. RegisterInv => TypeOK
  BY DEF RegisterInv
<1> QED
  BY <1>1, InitRegister, NextRegister, PTL DEF Spec

-----------------------------------------------------------------------------
(***************************************************************************)
(* The mutex comes free.                                                   *)
(***************************************************************************)

(* Entries that are not counted are empty. *)
RestEmpty == \A i \in handlerCtr .. Handlers : slots[i].id = None

(* Under the proviso of HeldOnlyToUpdate the mutex is locked once, and     *)
(* every id in the register is that of a call that was made before: this   *)
(* is why no call finds its id there.                                      *)
HeldInv ==
  /\ owner # None => pc[owner] = "claimed"
  /\ count <= 1
  /\ RestEmpty
  /\ \A i \in 0 .. handlerCtr - 1 :
       \/ slots[i].id = None
       \/ \E c \in Client : \E k \in 1 .. Len(script[c]) :
            k < call[c] /\ script[c][k].id = slots[i].id

(* No call finds its id in the register. *)
LEMMA NewId ==
  ASSUME RegisterInv, HeldInv, Orderly, NEW c \in Client,
         call[c] <= Len(script[c])
  PROVE  ~ Found(Current(c).id)
<1>1. Current(c).id # None /\ call[c] \in 1 .. Len(script[c])
  <2>1. Current(c) \in Call /\ script[c] \in Seq(Call)
    BY CurrentIsCall, ConstantsAssumption DEF RegisterInv, MutexInv, TypeOK
  <2> QED
    BY <2>1, ConstantsAssumption DEF Call, RegisterInv, MutexInv, TypeOK
<1> SUFFICES ASSUME NEW i \in 0 .. handlerCtr - 1, slots[i].id = Current(c).id
             PROVE  FALSE
  BY DEF Found, Entries
<1>2. PICK d \in Client : \E k \in 1 .. Len(script[d]) :
        k < call[d] /\ script[d][k].id = slots[i].id
  BY <1>1 DEF HeldInv
<1>3. PICK k \in 1 .. Len(script[d]) :
        k < call[d] /\ script[d][k].id = slots[i].id
  BY <1>2
<1>4. c = d /\ call[c] = k
  BY <1>1, <1>3 DEF Orderly, Current
<1> QED
  BY <1>3, <1>4

LEMMA StepHeld ==
  ASSUME RegisterInv, HeldInv, Orderly, NEW c \in Client, ~ corrupted, Step(c),
         UNCHANGED script
  PROVE  HeldInv'
<1>a. None \notin Client /\ None \notin InstanceId /\ Handlers \in Nat
  BY ConstantsAssumption
<1>b. /\ call \in [Client -> Nat] /\ count \in Nat /\ handlerCtr \in Nat
      /\ pc \in [Client -> {"idle", "claimed"}] /\ owner \in Client \cup {None}
      /\ slots \in [-1 .. Handlers -> Slot] /\ handlerCtr <= Handlers + 1
  BY DEF RegisterInv, TypeOK, CtrBound
<1>c. ~ RegisterTwice(c) /\ ~ Unregister(c)
  BY NewId DEF RegisterTwice, Unregister, Calls
<1>d. ASSUME pc[c] = "idle", owner \in {None, c}
      PROVE  owner = None /\ count = 0
  BY <1>a, <1>d DEF HeldInv, RegisterInv, MutexInv
<1>1. CASE RegisterClaim(c)
  <2>1. owner' = c /\ pc'[c] = "claimed" /\ count' <= 1
    BY <1>1, <1>b, <1>d DEF RegisterClaim, Calls, Lock
  <2>2. RestEmpty'
    BY <1>1, <1>b DEF RegisterClaim, HeldInv, RestEmpty
  <2>3. ASSUME NEW i \in 0 .. handlerCtr' - 1
        PROVE  \/ slots[i].id = None
               \/ i \in 0 .. handlerCtr - 1
    <3>1. handlerCtr <= Handlers
      <4>1. pc[c] = "idle" /\ owner = None
        BY <1>1, <1>d DEF RegisterClaim, Calls, Lock
      <4> QED
        BY <4>1, <1>a, <1>b DEF RegisterInv, CtrBound, MutexInv
    <3> QED
      BY <1>1, <1>b, <3>1 DEF RegisterClaim, HeldInv, RestEmpty
  <2>4. UNCHANGED <<slots, script, call>>
    BY <1>1 DEF RegisterClaim
  <2> QED
    BY <2>1, <2>2, <2>3, <2>4 DEF HeldInv
<1>2. CASE RegisterStore(c)
  <2>1. owner = c /\ claimed[c] = handlerCtr - 1 /\ count = 1
        /\ call[c] \in 1 .. Len(script[c])
    <3>1. owner = c /\ claimed[c] = handlerCtr - 1 /\ count # 0
          /\ call[c] >= 1 /\ call[c] <= Len(script[c])
      BY <1>2, <1>a DEF RegisterStore, RegisterInv, MutexInv
    <3>2. script[c] \in Seq(Call)
      BY ConstantsAssumption DEF RegisterInv, TypeOK
    <3> QED
      BY <3>1, <3>2, <1>b DEF HeldInv
  <2>2. owner' = None /\ count' = 0
    BY <1>2, <2>1 DEF RegisterStore, Unlock
  <2>3. /\ handlerCtr' = handlerCtr
        /\ slots'[handlerCtr - 1].id = Current(c).id
        /\ \A i \in -1 .. Handlers :
             i # handlerCtr - 1 => slots'[i] = slots[i]
    <3>1. /\ handlerCtr' = handlerCtr
          /\ slots' = [slots EXCEPT ![handlerCtr - 1] =
                         [id |-> Current(c).id, target |-> Current(c).target]]
      BY <1>2, <2>1 DEF RegisterStore
    <3>2. handlerCtr - 1 \in -1 .. Handlers
      BY <1>a, <1>b
    <3> HIDE DEF Current
    <3> QED
      BY <3>1, <3>2, <1>b
  <2>4. RestEmpty'
    BY <2>3, <1>b DEF HeldInv, RestEmpty
  <2>5. \A d \in Client : call'[d] >= call[d]
    BY <1>2, <1>b DEF RegisterStore, Return
  <2>6. call'[c] = call[c] + 1
    BY <1>2, <1>b DEF RegisterStore, Return
  <2>7. ASSUME NEW i \in 0 .. handlerCtr' - 1, slots'[i].id # None
        PROVE  \E d \in Client : \E k \in 1 .. Len(script[d]) :
                 k < call'[d] /\ script[d][k].id = slots'[i].id
    <3>a. i \in -1 .. Handlers /\ i \in 0 .. handlerCtr - 1
      BY <2>3, <1>a, <1>b
    <3>1. CASE i = handlerCtr - 1
      <4>1. slots'[i].id = script[c][call[c]].id
        BY <2>3, <3>1 DEF Current
      <4>2. call[c] < call'[c]
        BY <2>6, <1>b
      <4> QED
        BY <2>1, <4>1, <4>2
    <3>2. CASE i # handlerCtr - 1
      <4>1. i \in 0 .. handlerCtr - 1 /\ slots'[i].id = slots[i].id
        BY <2>3, <3>2, <3>a
      <4>2. PICK d \in Client : \E k \in 1 .. Len(script[d]) :
              k < call[d] /\ script[d][k].id = slots[i].id
        BY <2>7, <4>1 DEF HeldInv
      <4>3. PICK k \in 1 .. Len(script[d]) :
              k < call[d] /\ script[d][k].id = slots[i].id
        BY <4>2
      <4>4. k < call'[d]
        <5>1. script[d] \in Seq(Call) /\ call'[d] \in Nat
          BY <1>2, <1>b, ConstantsAssumption
          DEF RegisterStore, Return, RegisterInv, TypeOK
        <5> QED
          BY <2>5, <4>3, <5>1, <1>b
      <4> QED
        BY <4>1, <4>3, <4>4
    <3> QED
      BY <3>1, <3>2
  <2> QED
    BY <2>2, <2>4, <2>7 DEF HeldInv
<1>3. CASE UnregisterUnknown(c)
  <2>1. owner = None /\ owner' = None /\ count' = 0
    BY <1>3, <1>d DEF UnregisterUnknown, Calls
  <2>2. UNCHANGED <<slots, handlerCtr>>
    BY <1>3 DEF UnregisterUnknown
  <2>3. \A d \in Client : call'[d] \in Nat /\ call'[d] >= call[d]
    BY <1>3, <1>b DEF UnregisterUnknown, Return
  <2>4. ASSUME NEW i \in 0 .. handlerCtr - 1, slots[i].id # None
        PROVE  \E d \in Client : \E k \in 1 .. Len(script[d]) :
                 k < call'[d] /\ script[d][k].id = slots[i].id
    <3>1. PICK d \in Client : \E k \in 1 .. Len(script[d]) :
            k < call[d] /\ script[d][k].id = slots[i].id
      BY <2>4 DEF HeldInv
    <3>2. PICK k \in 1 .. Len(script[d]) :
            k < call[d] /\ script[d][k].id = slots[i].id
      BY <3>1
    <3>3. k < call'[d]
      <4>1. script[d] \in Seq(Call) /\ call[d] \in Nat
        BY <1>b, ConstantsAssumption DEF RegisterInv, TypeOK
      <4> QED
        BY <2>3, <3>2, <4>1
    <3> QED
      BY <3>2, <3>3
  <2> QED
    BY <2>1, <2>2, <2>4 DEF HeldInv, RestEmpty
<1> QED
  BY <1>1, <1>2, <1>3, <1>c DEF Step

(* The mutex is held only while the register is being updated, whatever    *)
(* the threads, for calls of which no two are about the same id.           *)
THEOREM MutexComesFree == Spec => []HeldOnlyToUpdate
<1>1. Init => (Orderly => HeldInv)
  BY ConstantsAssumption DEF Init, HeldInv, RestEmpty, Unwritten
<1>2. RegisterInv /\ (Orderly => HeldInv) /\ [Next]_vars => (Orderly => HeldInv)'
  <2> SUFFICES ASSUME RegisterInv, Orderly => HeldInv, [Next]_vars, Orderly'
               PROVE  HeldInv'
    OBVIOUS
  <2>1. Orderly
    BY DEF Next, Turn, vars, Orderly
  <2>2. CASE Next
    BY <2>1, <2>2, StepHeld DEF Next, Turn
  <2>3. CASE UNCHANGED vars
    BY <2>1, <2>3 DEF vars, HeldInv, RestEmpty
  <2> QED
    BY <2>2, <2>3
<1>3. (Orderly => HeldInv) => HeldOnlyToUpdate
  BY DEF HeldInv, HeldOnlyToUpdate
<1> QED
  BY <1>1, <1>2, <1>3, InitRegister, NextRegister, PTL DEF Spec

-----------------------------------------------------------------------------
(***************************************************************************)
(* The register is exact while nothing is removed, as in the firmware,     *)
(* which never calls unregisterHandler.                                    *)
(***************************************************************************)

RegistersOnly ==
  \A c \in Client : \A k \in 1 .. Len(script[c]) :
    script[c][k].op = "register"

(* The entry about to be written is empty, and its id in no other: nobody  *)
(* added it since the look-up, because the mutex was not free.             *)
ClaimInv ==
  \A c \in Client :
    pc[c] = "claimed" =>
      /\ slots[handlerCtr - 1].id = None
      /\ \A i \in 0 .. handlerCtr - 1 : slots[i].id # Current(c).id

ExactInv ==
  /\ RestEmpty
  /\ ClaimInv
  /\ NoIdTwice
  /\ RegisteredIsFound
  /\ \A i \in 0 .. handlerCtr - 1 : slots[i].id \in present \cup {None}

LEMMA StepExact ==
  ASSUME RegisterInv, ExactInv, RegistersOnly, NEW c \in Client, ~ corrupted,
         Step(c), UNCHANGED script
  PROVE  ExactInv'
<1>a. None \notin Client /\ None \notin InstanceId /\ Handlers \in Nat
  BY ConstantsAssumption
<1>b. /\ call \in [Client -> Nat] /\ count \in Nat /\ handlerCtr \in Nat
      /\ pc \in [Client -> {"idle", "claimed"}] /\ owner \in Client \cup {None}
      /\ slots \in [-1 .. Handlers -> Slot] /\ handlerCtr <= Handlers + 1
  BY DEF RegisterInv, TypeOK, CtrBound
<1>c. ASSUME call[c] <= Len(script[c])
      PROVE  Current(c).op = "register" /\ Current(c).id \in InstanceId
  <2>1. Current(c) \in Call /\ call[c] \in 1 .. Len(script[c])
    <3>1. script[c] \in Seq(Call)
      BY ConstantsAssumption DEF RegisterInv, TypeOK
    <3> QED
      BY <1>b, <1>c, <3>1, CurrentIsCall DEF RegisterInv, MutexInv
  <2> QED
    BY <2>1 DEF RegistersOnly, Current, Call
<1>d. ASSUME NEW d \in Client, pc[d] = "claimed", owner \in {None, c}, pc[c] = "idle"
      PROVE  FALSE
  BY <1>a, <1>d DEF RegisterInv, MutexInv
<1>1. CASE RegisterTwice(c)
  <2>1. \A d \in Client : pc'[d] = "idle"
    BY <1>1, <1>b, <1>d DEF RegisterTwice, Calls, Lock, Return
  <2>2. UNCHANGED <<slots, handlerCtr, present>>
    BY <1>1 DEF RegisterTwice
  <2> QED
    BY <2>1, <2>2 DEF ExactInv, RestEmpty, ClaimInv, NoIdTwice,
       RegisteredIsFound, Found, Entries
<1>2. CASE RegisterClaim(c)
  <2>1. \A d \in Client : pc[d] = "idle"
    BY <1>2, <1>b, <1>d DEF RegisterClaim, Calls, Lock
  <2>2. handlerCtr <= Handlers
    BY <2>1, <1>a, <1>b DEF RegisterInv, CtrBound
  <2>3. slots[handlerCtr].id = None
    BY <2>2, <1>b DEF ExactInv, RestEmpty
  <2>4. UNCHANGED <<slots, present, call, script>> /\ handlerCtr' = handlerCtr + 1
    BY <1>2 DEF RegisterClaim
  <2>5. Current(c).id # None /\ ~ Found(Current(c).id)
    BY <1>2, <1>a, <1>c DEF RegisterClaim, Calls
  <2>6. \A i \in 0 .. handlerCtr' - 1 : i = handlerCtr \/ i \in 0 .. handlerCtr - 1
    BY <2>4, <1>b
  <2>7. ClaimInv'
    <3> SUFFICES ASSUME NEW d \in Client, pc'[d] = "claimed"
                 PROVE  /\ slots[handlerCtr].id = None
                        /\ \A i \in 0 .. handlerCtr' - 1 :
                             slots[i].id # Current(d).id
      BY <2>4, <1>b DEF ClaimInv, Current
    <3>1. d = c
      BY <1>2, <2>1, <1>b DEF RegisterClaim
    <3> QED
      BY <3>1, <2>3, <2>5, <2>6 DEF Found, Entries
  <2>8. RestEmpty'
    BY <2>4, <1>b DEF ExactInv, RestEmpty
  <2>9. NoIdTwice'
    BY <2>3, <2>4, <2>6 DEF ExactInv, NoIdTwice
  <2>10. RegisteredIsFound'
    BY <2>4, <1>b DEF ExactInv, RegisteredIsFound, Found, Entries
  <2> QED
    BY <2>3, <2>4, <2>6, <2>7, <2>8, <2>9, <2>10 DEF ExactInv
<1>3. CASE RegisterStore(c)
  <2> DEFINE last == handlerCtr - 1
             id == Current(c).id
  <2>1. /\ claimed[c] = last /\ slots[last].id = None
        /\ \A i \in 0 .. last : slots[i].id # id
        /\ id \in InstanceId
    BY <1>3, <1>c DEF RegisterStore, RegisterInv, MutexInv, ExactInv, ClaimInv
  <2>2. last \in 0 .. Handlers
    <3>1. claimed[c] \in Nat
      BY DEF RegisterInv, TypeOK
    <3> QED
      BY <2>1, <3>1, <1>a, <1>b
  <2>3. /\ handlerCtr' = handlerCtr
        /\ slots'[last].id = id
        /\ \A i \in 0 .. Handlers : i # last => slots'[i] = slots[i]
    <3>1. /\ handlerCtr' = handlerCtr
          /\ slots' = [slots EXCEPT ![last] =
                         [id |-> id, target |-> Current(c).target]]
      BY <1>3, <2>1 DEF RegisterStore
    <3> HIDE DEF last, id
    <3> QED
      BY <3>1, <2>2, <1>a, <1>b
  <2>4. present' = present \cup {id}
    BY <1>3 DEF RegisterStore
  <2>5. \A d \in Client : pc'[d] = "idle"
    <3>1. owner = c
      BY <1>3 DEF RegisterStore, RegisterInv, MutexInv
    <3> QED
      BY <1>3, <3>1, <1>b DEF RegisterStore, Return, RegisterInv, MutexInv
  <2>6. /\ \A i \in 0 .. last : i \in 0 .. Handlers
        /\ \A i \in handlerCtr .. Handlers : i \in 0 .. Handlers /\ i # last
        /\ last \in 0 .. last
    BY <2>2, <1>a, <1>b
  <2> HIDE DEF id
  <2>7. RestEmpty'
    BY <2>3, <2>6 DEF ExactInv, RestEmpty
  <2>8. NoIdTwice'
    BY <2>1, <2>3, <2>6 DEF ExactInv, NoIdTwice
  <2>9. RegisteredIsFound'
    <3> SUFFICES ASSUME NEW x \in present'
                 PROVE  \E i \in 0 .. last : slots'[i].id = x
      BY <2>3 DEF RegisteredIsFound, Found, Entries
    <3>1. CASE x = id
      BY <3>1, <2>3, <2>6
    <3>2. CASE x \in present
      <4>1. x # None
        BY <3>2, <1>a DEF RegisterInv, TypeOK
      <4>2. PICK i \in 0 .. last : slots[i].id = x
        BY <3>2 DEF ExactInv, RegisteredIsFound, Found, Entries
      <4> QED
        BY <4>1, <4>2, <2>1, <2>3, <2>6
    <3> QED
      BY <3>1, <3>2, <2>4
  <2>10. \A i \in 0 .. last : slots'[i].id \in present' \cup {None}
    BY <2>3, <2>4, <2>6 DEF ExactInv
  <2>11. ClaimInv'
    BY <2>5 DEF ClaimInv
  <2> QED
    BY <2>3, <2>7, <2>8, <2>9, <2>10, <2>11 DEF ExactInv
<1>4. ~ Unregister(c) /\ ~ UnregisterUnknown(c)
  BY <1>c DEF Unregister, UnregisterUnknown, Calls
<1> QED
  BY <1>1, <1>2, <1>3, <1>4 DEF Step

LEMMA RegisterExact == Spec => [](RegistersOnly => ExactInv)
<1>1. Init => ExactInv
  BY ConstantsAssumption
  DEF Init, ExactInv, RestEmpty, ClaimInv, NoIdTwice, RegisteredIsFound,
      Unwritten
<1>2. RegisterInv /\ (RegistersOnly => ExactInv) /\ [Next]_vars
        => (RegistersOnly => ExactInv)'
  <2> SUFFICES ASSUME RegisterInv, RegistersOnly => ExactInv, [Next]_vars,
                      RegistersOnly'
               PROVE  ExactInv'
    OBVIOUS
  <2>1. RegistersOnly
    BY DEF Next, Turn, vars, RegistersOnly
  <2>2. CASE Next
    BY <2>1, <2>2, StepExact DEF Next, Turn
  <2>3. CASE UNCHANGED vars
    BY <2>1, <2>3
    DEF vars, ExactInv, RestEmpty, ClaimInv, NoIdTwice, RegisteredIsFound,
        Found, Entries, Current
  <2> QED
    BY <2>2, <2>3
<1> QED
  BY <1>1, <1>2, InitRegister, NextRegister, PTL DEF Spec

(* No id gets into the register twice, although several threads look       *)
(* whether it is there before they add it.                                 *)
THEOREM IdsOnce == Spec => [](RegistersOnly => NoIdTwice)
<1>1. ExactInv => NoIdTwice
  BY DEF ExactInv
<1> QED
  BY <1>1, RegisterExact, PTL

(* What was registered is found, also while others are registering.        *)
THEOREM FoundForGood == Spec => [](RegistersOnly => RegisteredIsFound)
<1>1. ExactInv => RegisteredIsFound
  BY DEF ExactInv
<1> QED
  BY <1>1, RegisterExact, PTL

(* Nothing is found that was not registered.                               *)
THEOREM NothingElseFound == Spec => [](RegistersOnly => UnregisteredIsGone)
<1>1. ExactInv => UnregisteredIsGone
  BY ConstantsAssumption DEF ExactInv, UnregisteredIsGone, Found, Entries
<1> QED
  BY <1>1, RegisterExact, PTL
==============================================================================
