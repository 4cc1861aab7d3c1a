---------------------------- MODULE RouterSystem ----------------------------
(***************************************************************************)
(* The packet handler together with what it is connected to: main, whose   *)
(* calls may fail, the websocket with its receive thread, and one          *)
(* processor.  The packet thread, the work queue, the receive thread and   *)
(* the threads of the peripherals are cooperative: while the receive       *)
(* thread does not sleep none of the others runs.                          *)
(*                                                                         *)
(* Bytes and the set-up of the websocket are WebSocket's: here a packet is *)
(* in the socket or it is not, and connect succeeds or fails.              *)
(***************************************************************************)
EXTENDS PacketHandler

CONSTANTS
  Automatic,   \* main's local instances whose destructor silences them
  LinkLosses   \* the connection to the cloud may be lost

(* The instances main registers a handler for. *)
Registrable ==
  {BootScript[a].id :
     a \in {b \in 1 .. Len(BootScript) : BootScript[b].op = "register"}}

(* main registers what it starts, and nothing under the id 0.              *)
ASSUME SystemAssumption ==
  /\ Unknown \in Addressed
  /\ 0 \in RequestId
  /\ \A a \in 1 .. Len(BootScript) : BootScript[a].id \in Registrable
  /\ Cloud \in Registrable
  /\ Unknown \notin Registrable
  /\ Automatic \subseteq InstanceId \ {Cloud}
  /\ LinkLosses \in BOOLEAN

VARIABLES
  link,    \* the connection: "down", "open", "lost", or what failed
  reader,  \* the receive thread: "none", "reading", "asleep"
  inbox,   \* packets of the cloud in the socket
  dead,    \* instances whose init or connect failed
  silent,  \* instances whose interrupts main's destructors switched off
  exited   \* main has returned

systemVars == <<link, reader, inbox, dead, silent, exited>>
allVars == <<vars, systemVars>>

(* The receive thread has the processor and does not give it away. *)
Yielded == reader # "reading"

-----------------------------------------------------------------------------
(* main. *)

IsStart == boot <= Len(BootScript) /\ BootScript[boot].op = "start"

(* The websocket is set up: init may fail ("unset") and connect may fail   *)
(* ("failed").                                                             *)
StartCloud ==
  /\ IsStart /\ BootScript[boot].id = Cloud
  /\ link' \in {"open", "unset", "failed"}
  /\ reader' = IF link' = "open" THEN "reading" ELSE "none"
  /\ dead' = IF link' = "open" THEN dead ELSE dead \cup {Cloud}
  /\ UNCHANGED <<inbox, silent, exited>>

StartPeripheral ==
  /\ IsStart /\ BootScript[boot].id # Cloud
  /\ dead' \in {dead, dead \cup {BootScript[boot].id}}
  /\ UNCHANGED <<link, reader, inbox, silent, exited>>

(* Mutant: the handler of an instance that failed is not registered. *)
MutantMainGoesOn ==
  \/ /\ MainStep
     /\ StartCloud \/ StartPeripheral
          \/ (~ IsStart /\ BootScript[boot].id \notin dead
                /\ UNCHANGED systemVars)
  \/ /\ fault = "none" /\ boot <= Len(BootScript)
     /\ ~ IsStart /\ BootScript[boot].id \in dead
     /\ boot' = boot + 1
     /\ UNCHANGED <<started, registered, msgq, msg, result, pending, running,
                    fault, log, delivered, issued, asked, replies, systemVars>>

(* Handlers are registered also for instances that failed. *)
MainGoesOn ==
  /\ MainStep
  /\ StartCloud \/ StartPeripheral \/ (~ IsStart /\ UNCHANGED systemVars)

(* The destructor of an instance switches its interrupts off. *)
Silenced == Automatic

(* When something failed main returns instead of waiting for the threads,  *)
(* and the destructors of its local instances run.                         *)
MainReturns ==
  /\ fault = "none"
  /\ boot > Len(BootScript)
  /\ ~ exited
  /\ dead # {}
  /\ exited' = TRUE
  /\ silent' = Silenced
  /\ UNCHANGED <<vars, link, reader, inbox, dead>>

-----------------------------------------------------------------------------
(* The connection. *)

Unread == {inbox[k] : k \in 1 .. Len(inbox)}

(* The application sends a control packet, *)
CloudSends(dest, id) ==
  /\ fault = "none"
  /\ link = "open"
  /\ Len(log) + Len(inbox) < MaxPackets
  /\ MayIssue(dest, id)
  /\ \A p \in Unread : p.id # id /\ (OneOutstanding => p.dest # dest)
  /\ inbox' = Append(inbox, [dest |-> dest, id |-> id])
  /\ UNCHANGED <<vars, link, reader, dead, silent, exited>>

(* and what it sent last can still be read when the connection is lost.    *)
LinkLost ==
  /\ LinkLosses
  /\ fault = "none"
  /\ link = "open"
  /\ link' = "lost"
  /\ UNCHANGED <<vars, reader, inbox, dead, silent, exited>>

-----------------------------------------------------------------------------
(* The receive thread. *)

Wake ==
  /\ fault = "none"
  /\ reader = "asleep"
  /\ inbox # <<>> \/ link = "lost"
  /\ reader' = "reading"
  /\ UNCHANGED <<vars, link, inbox, dead, silent, exited>>

ReadPacket ==
  /\ reader = "reading"
  /\ inbox # <<>>
  /\ CloudControl(Head(inbox).dest, Head(inbox).id)
  /\ inbox' = Tail(inbox)
  /\ UNCHANGED <<link, reader, dead, silent, exited>>

(* Mutant: the thread does not sleep when there is nothing to read. *)
MutantNeverSleeps == "reading"

ReaderAfterNothing == "asleep"

NothingThere ==
  /\ fault = "none"
  /\ reader = "reading"
  /\ inbox = <<>>
  /\ link = "open"
  /\ reader' = ReaderAfterNothing
  /\ UNCHANGED <<vars, link, inbox, dead, silent, exited>>

(* On a connection that was lost each receive fails at once, and the empty *)
(* buffer it leaves reads as a control packet for instance 0.              *)
ReadNothing ==
  /\ reader = "reading"
  /\ inbox = <<>>
  /\ link = "lost"
  /\ CloudControl(Unknown, 0)
  /\ UNCHANGED systemVars

Reader == Wake \/ ReadPacket \/ NothingThere \/ ReadNothing

-----------------------------------------------------------------------------
(* The cooperative threads beside it. *)

PacketThread ==
  /\ Yielded
  /\ HandlePacketBuffers
  /\ UNCHANGED systemVars

(* The callback of the cloud waits for the connection event, which a       *)
(* connect that failed never posts; one that was not set up returns.       *)
MayRun(i) == i = Cloud => link \in {"open", "lost", "unset"}

(* A message that is sent over the UART switches its receiver on again.    *)
StartWork ==
  /\ Yielded
  /\ RunWork
  /\ MayRun(running')
  /\ silent' = silent \ {running'}
  /\ UNCHANGED <<link, reader, inbox, dead, exited>>

EndWork ==
  /\ Yielded
  /\ FinishWork
  /\ UNCHANGED systemVars

(* Peripheral i answers request r, or sends data of its own (r = 0). *)
PeripheralSpeaks(i, r) ==
  /\ Yielded
  /\ i \notin dead \cup silent
  /\ PeripheralData(i, r)
  /\ UNCHANGED systemVars

(* It sends a line that is taken for a packet of the CM4. *)
PeripheralBabbles(i, control) ==
  /\ Yielded
  /\ i \notin dead \cup silent
  /\ StartTokenLine(i, control)
  /\ UNCHANGED systemVars

-----------------------------------------------------------------------------
SysInit ==
  /\ Init
  /\ link = "down"
  /\ reader = "none"
  /\ inbox = <<>>
  /\ dead = {}
  /\ silent = {}
  /\ exited = FALSE

SysNext ==
  \/ Yielded /\ (MainGoesOn \/ MainReturns)
  \/ \E dest \in Addressed \ {Unknown}, id \in RequestId \ {0} :
        CloudSends(dest, id)
  \/ LinkLost
  \/ Reader
  \/ PacketThread
  \/ StartWork
  \/ EndWork
  \/ \E i \in InstanceId \ {Cloud}, r \in RequestId \ {0} : PeripheralSpeaks(i, r)
  \/ Len(log) < MaxPackets /\ \E i \in InstanceId \ {Cloud} : PeripheralSpeaks(i, 0)
  \/ /\ Len(log) < MaxPackets
     /\ \E i \in Serial, control \in BOOLEAN : PeripheralBabbles(i, control)

SysSpec == SysInit /\ [][SysNext]_allVars

(* Every thread that can run goes on, and devices answer.                  *)
SysFairness ==
  /\ WF_allVars(Reader)
  /\ WF_allVars(PacketThread)
  /\ WF_allVars(StartWork)
  /\ WF_allVars(EndWork)
  /\ \A i \in InstanceId \ {Cloud} :
        WF_allVars(\E r \in RequestId \ {0} : PeripheralSpeaks(i, r))

FairSystem == SysSpec /\ SysFairness

-----------------------------------------------------------------------------
(* The system stopped, or it cannot reach the cloud any more. *)
CutOff == fault # "none" \/ link \in {"lost", "failed", "unset"}

(* The number of the packet the packet thread took last. *)
LastTaken == Len(log) - Len(msgq)

(* A packet finds no handler only while main still starts instances, or    *)
(* when it addresses an id that main never registers: whatever failed in   *)
(* the start, whatever was lost or is still queued, every instance main    *)
(* knows can be addressed and heard once main is through.                  *)
NullOnlyForStrangers ==
  fault = "null_handler" =>
    \/ boot <= Len(BootScript)
    \/ log[LastTaken] \in InstanceId \ Registrable

(* While the connection lasts no accepted packet is stranded in the queue, *)
(* a slot or the work queue: its destination is handed it or a newer one,  *)
(* although the receive thread shares the processor with them.             *)
NothingStranded ==
  \A k \in 1 .. 2 * MaxPackets :
    (k <= Len(log) /\ log[k] # None)
      ~> (CutOff \/
          \E i \in InstanceId :
             /\ k <= Len(log) /\ log[k] = i
             /\ \E m \in Elements(delivered[i]) : m.n >= k)

(* A request in the socket gets its result from the device it is for,      *)
(* unless the connection or that device failed or main switched it off.    *)
SentGetsResult ==
  \A d \in Addressed \ {Unknown}, r \in RequestId \ {0} :
    (\E p \in Unread : p.dest = d /\ p.id = r)
      ~> (\/ CutOff
          \/ d \in dead \cup silent
          \/ \E a \in 1 .. Len(replies) : replies[a].id = r)

(* Whatever fails, an instance that started is heard. *)
OthersKeepWorking == \A i \in started \ dead : i \notin silent

(* Losing the connection leaves the firmware running. *)
SurvivesLoss == link = "lost" => fault # "overrun"
==============================================================================
