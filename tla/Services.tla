------------------------------- MODULE Services -------------------------------
(***************************************************************************)
(* The services beside the turns.  Six scenes, one of which a behaviour    *)
(* plays: the state store under all its operations; heartbeat, proactive   *)
(* engine and state store beside users' turns, and the device monitor      *)
(* beside them, with the process killed and started again; the event       *)
(* router; the credentials; and a device's client, which is another        *)
(* process.  Those of different scenes have nothing in common.             *)
(***************************************************************************)
EXTENDS Heartbeat, DeviceMonitor, EventRouter, Credentials, DeviceClient

CONSTANT Scenes

VARIABLE scene

vars == <<scene, heartbeatVars, monitorVars, routerVars, authVars, clientVars>>

Init ==
    /\ scene \in Scenes
    /\ HeartbeatInit
    /\ MonitorInit
    /\ RouterInit
    /\ AuthInit
    /\ ClientInit
    /\ scene # "beats" => tasks = "some"
    /\ scene # "client" => device.tools = {} /\ device.platform = "linux"
    /\ scene # "state" => legacy = None
-----------------------------------------------------------------------------
(***************************************************************************)
(* The state store by itself.  The agent loop only sets the last channel.  *)
(***************************************************************************)
StateScene ==
    /\ \/ \E w \in Writers :
             \/ Save(w)
             \/ \E chat \in Chats :
                   \/ SetLastChannel(w, chat) \/ SetLastChatID(w, chat[2])
                   \/ SetUserState(w, "user", chat[1], chat[2])
             \/ RemoveUser(w, "user")
       \/ StateRestart
    /\ UNCHANGED <<engineVars, up, beatVars, turn, monitorVars>>

(***************************************************************************)
(* The gateway's residents.                                                *)
(***************************************************************************)
\* The monitor's manager is made after the heartbeat has been started.
MonitorStep ==
    /\ up
    /\ \/ \E enabled \in BOOLEAN, made \in NewManager(file, legacy) :
             StartMonitor(enabled, made.memory.lastChannel)
       \/ ReadBlock \/ PassOn \/ Announce(ParseLastChannel(informed)) \/ StopMonitor \/ ReaderEnds
    /\ UNCHANGED heartbeatVars

SaveStep ==
    /\ \E w \in Writers : Save(w)
    /\ UNCHANGED <<engineVars, up, beatVars, turn>>

TimeStep ==
    /\ Passes \/ DiskFills
    /\ UNCHANGED <<stateVars, up, beatVars, turn>>

BeatsScene ==
    /\ HeartbeatStep \/ TurnStep \/ SaveStep \/ TimeStep \/ ProcessEnds
    /\ UNCHANGED monitorVars

PlugsScene ==
    \/ ProcessEnds /\ MonitorEnds
    \/ MonitorStep
    \/ /\ StartHeartbeat \/ TurnStep \/ SaveStep
       /\ UNCHANGED monitorVars
-----------------------------------------------------------------------------
Next ==
    /\ UNCHANGED scene
    /\ \/ /\ \/ scene = "state" /\ StateScene
             \/ scene = "beats" /\ BeatsScene
             \/ scene = "plugs" /\ PlugsScene
          /\ UNCHANGED <<routerVars, authVars, clientVars>>
       \/ /\ scene = "events" /\ RouterStep
          /\ UNCHANGED <<heartbeatVars, monitorVars, authVars, clientVars>>
       \/ /\ scene = "accounts" /\ AuthStep
          /\ UNCHANGED <<heartbeatVars, monitorVars, routerVars, clientVars>>
       \/ /\ scene = "client" /\ ClientStep
          /\ UNCHANGED <<heartbeatVars, monitorVars, routerVars, authVars>>

\* The goroutines of a process are scheduled as long as it runs.
Fairness ==
    /\ WF_vars(RouterSystemStep /\ Next)
    /\ WF_vars(ClientSystemStep /\ Next)

Spec == Init /\ [][Next]_vars /\ Fairness
=============================================================================
