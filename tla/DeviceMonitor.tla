----------------------------- MODULE DeviceMonitor -----------------------------
(***************************************************************************)
(* pkg/devices/service.go and pkg/devices/sources/usb_linux.go: a goroutine *)
(* reads udevadm's blocks and passes on those it is interested in through  *)
(* a channel; another one announces each to the chat that was active last. *)
(* The service's state manager is loaded once; the API server answers its  *)
(* questions about users from the same one.                                *)
(***************************************************************************)
EXTENDS Naturals, Sequences

CONSTANTS
    Plugs,          \* what udevadm prints, in order: [by, action, type] blocks
    ChannelSize,    \* 16 in the code
    NoChannel

VARIABLES
    monitor,        \* the service: "off", "on" or "stopped"
    informed,       \* the last channel its state manager has loaded
    printed,        \* how many blocks udevadm has printed
    reader,         \* the goroutine that reads them
    eventCh,        \* the channel between the two, and whether it is open
    announced       \* what the users of each chat were told

monitorVars == <<monitor, informed, printed, reader, eventCh, announced>>

MonitorInit ==
    /\ monitor = "off"
    /\ informed = NoChannel
    /\ printed = 0
    /\ reader = [at |-> "off"]
    /\ eventCh = [open |-> FALSE, buffer |-> <<>>]
    /\ announced = <<>>

\* Only a udev block of a device as such; the kernel's comes first and has less
\* to tell, and each device has a block per interface too.
ParseUSBEvent(block) ==
    /\ block.by = "udev"
    /\ block.action \in {"add", "remove"}
    /\ block.type \in {"usb_device", "none"}

\* Without a source nothing is started; a source that fails is skipped.
StartMonitor(enabled, known) ==
    /\ monitor = "off"
    /\ monitor' = "on"
    /\ informed' = known
    /\ \/ /\ enabled
          /\ reader' = [at |-> "reading"]
          /\ eventCh' = [open |-> TRUE, buffer |-> <<>>]
       \/ UNCHANGED <<reader, eventCh>>
    /\ UNCHANGED <<printed, announced>>

ReadBlock ==
    /\ reader.at = "reading"
    /\ printed < Len(Plugs)
    /\ printed' = printed + 1
    /\ reader' = IF ParseUSBEvent(Plugs[printed + 1])
                 THEN [at |-> "passing", plug |-> printed + 1] ELSE reader
    /\ UNCHANGED <<monitor, informed, eventCh, announced>>

PassOn ==
    /\ reader.at = "passing"
    /\ Len(eventCh.buffer) < ChannelSize
    /\ eventCh' = [eventCh EXCEPT !.buffer = Append(@, reader.plug)]
    /\ reader' = [at |-> "reading"]
    /\ UNCHANGED <<monitor, informed, printed, announced>>

\* handleEvents and sendNotification, to a chat that is not internal.
Announce(address) ==
    /\ eventCh.buffer # <<>>
    /\ announced' = IF address = NoChannel THEN announced
                    ELSE Append(announced, [plug |-> Head(eventCh.buffer), to |-> address])
    /\ eventCh' = [eventCh EXCEPT !.buffer = Tail(@)]
    /\ UNCHANGED <<monitor, informed, printed, reader>>

StopMonitor ==
    /\ monitor = "on"
    /\ monitor' = "stopped"
    /\ UNCHANGED <<informed, printed, reader, eventCh, announced>>

\* udevadm ends by itself or is killed, and the reader meets the end of its output;
\* when it is waiting for room, only the cancelled context ends it.
ReaderEnds ==
    /\ \/ reader.at = "reading"
       \/ reader.at = "passing" /\ monitor = "stopped"
    /\ reader' = [at |-> "off"]
    /\ eventCh' = [eventCh EXCEPT !.open = FALSE]
    /\ UNCHANGED <<monitor, informed, printed, announced>>

MonitorEnds ==
    /\ monitor' = "off"
    /\ reader' = [at |-> "off"]
    /\ eventCh' = [open |-> FALSE, buffer |-> <<>>]
    /\ UNCHANGED <<informed, printed, announced>>
=============================================================================
