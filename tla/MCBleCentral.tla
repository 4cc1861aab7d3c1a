---------------------------- MODULE MCBleCentral ----------------------------
(* Instances of BleCentral for TLC. *)
EXTENDS BleCentral

(* Parts of an attribute table. *)
Crownstone(short) == [rest |-> "crownstone", short |-> short]
Other(short) == [rest |-> "other", short |-> short]

Service(uuid) == <<[type |-> "service", uuid |-> uuid]>>
Characteristic(uuid) ==
  <<[type |-> "characteristic", uuid |-> uuid], [type |-> "value", uuid |-> uuid]>>
Configuration == <<[type |-> "descriptor", uuid |-> CCC_UUID]>>

(* A service of someone else uses the same 16 bits in its UUIDs. *)
OtherService ==
  Service(Other(0)) \o Characteristic(Other(CONTROL_UUID)) \o Configuration

(* Two devices whose attributes are laid out differently. *)
FirstTable ==
  Service(Crownstone(0)) \o Characteristic(Crownstone(SESSION_DATA_UUID))
    \o Characteristic(Crownstone(CONTROL_UUID))
    \o Characteristic(Crownstone(RESULT_UUID)) \o Configuration
    \o OtherService
SecondTable ==
  OtherService \o Service(Crownstone(0))
    \o Characteristic(Crownstone(RESULT_UUID)) \o Configuration
    \o Characteristic(Crownstone(CONTROL_UUID))
    \o Characteristic(Crownstone(SESSION_DATA_UUID))

(* Three devices the code does not expect: no control characteristic, the  *)
(* Crownstone service missing, another descriptor before the configuration *)
(* of the result.                                                          *)
NoControl ==
  Service(Crownstone(0)) \o Characteristic(Crownstone(SESSION_DATA_UUID))
    \o Characteristic(Crownstone(RESULT_UUID)) \o Configuration
NoService == OtherService
LateConfiguration ==
  Service(Crownstone(0)) \o Characteristic(Crownstone(SESSION_DATA_UUID))
    \o Characteristic(Crownstone(CONTROL_UUID))
    \o Characteristic(Crownstone(RESULT_UUID))
    \o <<[type |-> "descriptor", uuid |-> fromShortUuid(10497)]>>
    \o Configuration

MCDevices == {1, 2}
MCTables == <<FirstTable, SecondTable>>
WithoutControl == <<FirstTable, NoControl>>
WithoutService == <<FirstTable, NoService>>
WithLateConfiguration == <<FirstTable, LateConfiguration>>

MCSessions == [d \in MCDevices |-> 2]

(* The session data of the second device does not fit in two units. *)
MCLongSession == [d \in MCDevices |-> d + 1]

OneDevice == {1}
OneTable == <<FirstTable>>

OneSession == [d \in OneDevice |-> 2]

NoFaults == {}

(* What the code itself tries again after. *)
Retried == {"create", "connect", "loss"}
==============================================================================
