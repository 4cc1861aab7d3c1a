--------------------------- MODULE HandlerRegister ---------------------------
(***************************************************************************)
(* The register of transport handlers: the array _handlers, its counter    *)
(* and the mutex that guards changes.  Clients are threads that register   *)
(* and unregister; the packet thread looks handlers up without the mutex   *)
(* and can do so between any two steps of a client, which it preempts.     *)
(***************************************************************************)
EXTENDS Integers, Sequences

CONSTANTS
  Client,      \* threads that call registerHandler and unregisterHandler
  InstanceId,  \* cs_router_instance_id values in use
  None,        \* no client, no id
  Scripts,     \* possible calls of the clients, in order
  Handlers     \* CS_PACKET_HANDLERS: entries of _handlers

(* What the caller passes as target: the instance, or the address of a     *)
(* pointer to it; "garbage" is memory nobody has written.                  *)
Target == {"instance", "pointer", "garbage"}

Call == [op : {"register", "unregister"}, id : InstanceId,
         target : Target \ {"garbage"}]

ASSUME ConstantsAssumption ==
  /\ None \notin Client \cup InstanceId
  /\ Scripts \subseteq [Client -> Seq(Call)]
  /\ Handlers \in Nat

VARIABLES
  slots,     \* _handlers, with the memory on both sides of it
  handlerCtr,\* _handler_ctr
  owner,     \* _pkth_mtx: the client that holds it,
  count,     \* and how often that client has locked it
  script,    \* the calls of each client,
  call,      \* the next of them,
  claimed,   \* the entry each client is about to write
  pc,        \* where each client is in its call
  corrupted, \* memory outside _handlers was written
  present    \* history: what the calls that returned CS_OK amount to

vars == <<slots, handlerCtr, owner, count, script, call, claimed, pc,
          corrupted, present>>

Slot == [id : InstanceId \cup {None}, target : Target]

Unwritten == [id |-> None, target |-> "garbage"]

Current(c) == script[c][call[c]]

(* getHandler: the first entry with the id.                                *)
Entries(id) == {i \in 0 .. handlerCtr - 1 : slots[i].id = id}

Found(id) == Entries(id) # {}

GetHandler(id) ==
  slots[CHOOSE i \in Entries(id) : \A j \in Entries(id) : i <= j]

-----------------------------------------------------------------------------
(* A mutex that its owner may lock again. *)

(* Mutant: a client does not wait for the mutex. *)
MutantNoWait(c) == owner' = c /\ count' = count + 1

Lock(c) ==
  /\ owner \in {None, c}
  /\ owner' = c
  /\ count' = count + 1

(* Mutant: the mutex stays locked. *)
MutantStaysLocked(c) == UNCHANGED <<owner, count>>

Unlock(c) ==
  /\ owner' = IF count = 1 THEN None ELSE owner
  /\ count' = count - 1

(* The client's call is over. *)
Return(c) ==
  /\ call' = [call EXCEPT ![c] = @ + 1]
  /\ pc' = [pc EXCEPT ![c] = "idle"]

(* Writes through an index outside the array hit other memory. *)
Outside(i) == i \notin 0 .. Handlers - 1

Calls(c, op) ==
  /\ pc[c] = "idle"
  /\ call[c] <= Len(script[c])
  /\ Current(c).op = op

-----------------------------------------------------------------------------
(* registerHandler. *)

(* The id is there already: the call fails and leaves the mutex locked.    *)
RegisterTwice(c) ==
  /\ Calls(c, "register")
  /\ Lock(c)
  /\ Found(Current(c).id)
  /\ Return(c)
  /\ UNCHANGED <<slots, handlerCtr, claimed, corrupted, present>>

(* Mutant: the entry behind the claimed one is written. *)
MutantClaimNext == handlerCtr + 1

Claim == handlerCtr

(* The counter is raised, *)
RegisterClaim(c) ==
  /\ Calls(c, "register")
  /\ Lock(c)
  /\ ~ Found(Current(c).id)
  /\ claimed' = [claimed EXCEPT ![c] = Claim]
  /\ handlerCtr' = handlerCtr + 1
  /\ pc' = [pc EXCEPT ![c] = "claimed"]
  /\ UNCHANGED <<slots, call, corrupted, present>>

(* then the entry is written and the mutex unlocked.                       *)
RegisterStore(c) ==
  /\ pc[c] = "claimed"
  /\ slots' = [slots EXCEPT ![claimed[c]] = [id |-> Current(c).id,
                                             target |-> Current(c).target]]
  /\ corrupted' = (corrupted \/ Outside(claimed[c]))
  /\ present' = present \cup {Current(c).id}
  /\ Unlock(c)
  /\ Return(c)
  /\ UNCHANGED <<handlerCtr, claimed>>

-----------------------------------------------------------------------------
(* unregisterHandler. *)

(* The loop counts i up to the last entry and leaves j at i - 1, so it     *)
(* copies the same entry over the one in front of it, again and again.  It *)
(* copies nothing when the last entry is removed.                          *)
Shifted(i) ==
  IF i < handlerCtr - 1 THEN [slots EXCEPT ![i - 1] = slots[i]] ELSE slots

(* Mutant: the removed entry is still counted. *)
MutantCtrStays == handlerCtr

CtrAfterRemoval == handlerCtr - 1

(* The id is found: the call succeeds and leaves the mutex locked.         *)
Unregister(c) ==
  /\ Calls(c, "unregister")
  /\ Lock(c)
  /\ Found(Current(c).id)
  /\ LET i == CHOOSE i \in Entries(Current(c).id) :
                \A j \in Entries(Current(c).id) : i <= j
     IN  /\ slots' = Shifted(i)
         /\ corrupted' = (corrupted \/ (i < handlerCtr - 1 /\ Outside(i - 1)))
  /\ handlerCtr' = CtrAfterRemoval
  /\ present' = present \ {Current(c).id}
  /\ Return(c)
  /\ UNCHANGED claimed

UnregisterUnknown(c) ==
  /\ Calls(c, "unregister")
  /\ owner \in {None, c}
  /\ ~ Found(Current(c).id)
  /\ Return(c)
  /\ UNCHANGED <<slots, handlerCtr, owner, count, claimed, corrupted, present>>

-----------------------------------------------------------------------------
Init ==
  /\ slots = [i \in -1 .. Handlers |-> Unwritten]
  /\ handlerCtr = 0
  /\ owner = None
  /\ count = 0
  /\ script \in Scripts
  /\ call = [c \in Client |-> 1]
  /\ claimed = [c \in Client |-> 0]
  /\ pc = [c \in Client |-> "idle"]
  /\ corrupted = FALSE
  /\ present = {}

Step(c) ==
  \/ RegisterTwice(c)
  \/ RegisterClaim(c)
  \/ RegisterStore(c)
  \/ Unregister(c)
  \/ UnregisterUnknown(c)

(* Nothing is said of what happens after other memory was written.         *)
Turn(c) == ~ corrupted /\ Step(c) /\ UNCHANGED script

Next == \E c \in Client : Turn(c)

Spec == Init /\ [][Next]_vars

FairSpec == Spec /\ \A c \in Client : WF_vars(Turn(c))

-----------------------------------------------------------------------------
TypeOK ==
  /\ slots \in [-1 .. Handlers -> Slot]
  /\ handlerCtr \in Nat
  /\ owner \in Client \cup {None}
  /\ count \in Nat
  /\ script \in Scripts
  /\ call \in [Client -> Nat]
  /\ claimed \in [Client -> Nat]
  /\ pc \in [Client -> {"idle", "claimed"}]
  /\ corrupted \in BOOLEAN
  /\ present \subseteq InstanceId

(* No id is in the register twice, although several threads look whether   *)
(* it is there before they add it.                                         *)
NoIdTwice ==
  \A i, j \in 0 .. handlerCtr - 1 :
    slots[i].id = slots[j].id /\ slots[i].id # None => i = j

(* An id that was registered, and not unregistered since, is found.        *)
RegisteredIsFound == \A id \in present : Found(id)

(* An id that was unregistered is not found.                               *)
UnregisteredIsGone ==
  (\A c \in Client : pc[c] = "idle")
    => \A id \in InstanceId \ present : ~ Found(id)

(* A look-up never compares ids with memory nobody has written.            *)
EntriesAreWritten ==
  \A i \in 0 .. handlerCtr - 1 : slots[i].target # "garbage"

(* The callback of an instance is given that instance.                     *)
TargetIsInstance ==
  \A id \in InstanceId : Found(id) => GetHandler(id).target # "pointer"

(* No id occurs in two calls. *)
Orderly ==
  \A c, d \in Client :
    \A i \in 1 .. Len(script[c]), j \in 1 .. Len(script[d]) :
      script[c][i].id = script[d][j].id => c = d /\ i = j

(* The mutex is held only while the register is being updated, as long as  *)
(* no id is registered twice and none is unregistered: those calls return  *)
(* with the mutex locked.                                                  *)
HeldOnlyToUpdate == Orderly /\ owner # None => pc[owner] = "claimed"

(* With the same proviso no thread waits for the register for ever.        *)
EveryCallReturns ==
  \A c \in Client : Orderly ~> call[c] > Len(script[c])
==============================================================================
