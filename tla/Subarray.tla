------------------------------- MODULE Subarray -------------------------------
(***************************************************************************)
(* The SDP subarray devices (SDPSubarray.py).  The commands of a device    *)
(* follow one another, but a command is many steps: transactions on the    *)
(* configuration database, which other devices, workflows and users change *)
(* in between, and reads of an attribute of the CSP.                       *)
(***************************************************************************)
EXTENDS Integers, Sequences, Functions

CONSTANTS
    Devices,         \* the subarray devices
    Blocks,          \* ids of processing blocks
    RealTime,        \* the ids that configurations use for real-time blocks
    Scans,           \* scan ids
    Configurations,  \* arguments of Configure
    Updates,         \* arguments of ConfigureScan: sequences of blocks
    Deletable,       \* what users delete
    Writable,        \* what operators write to the attribute obsState
    None

(* blocks: in the order of the configuration; given: the real-time blocks   *)
(* with scan parameters; receiver: the first one with the address of a CSP  *)
(* output link, None if there is none.                                      *)
Argument == [blocks : Seq(Blocks), given : SUBSET RealTime, receiver : RealTime \union {None}]

ObsStates == {"IDLE", "CONFIGURING", "READY", "SCANNING", "PAUSED", "ABORTED", "FAULT"}

ASSUME SubarrayAssumption ==
    /\ RealTime \subseteq Blocks
    /\ Configurations \subseteq Argument
    /\ \A c \in Configurations :
         c.given \union ({c.receiver} \ {None}) \subseteq Range(c.blocks)
    /\ Updates \subseteq Seq(Blocks)
    /\ Deletable \subseteq Blocks
    /\ Writable \subseteq ObsStates
    /\ None \notin Blocks \union Scans

VARIABLES
    obsState,   \* _obs_state
    at,         \* where the device is in a command, "idle" between two
    scan,       \* scan id of the last command that configured
    todo,       \* what is left of its loop over processing blocks
    given,      \* the real-time blocks it has scan parameters for
    realtime,   \* _pb_realtime, as a set
    link,       \* receiver of the configuration, until it is assigned
    receiver,   \* _pb_receive_addresses
    addresses,  \* _receive_addresses, by their scan id
    block,      \* the database: the scan of /pb/<id>, with None for {}
    state,      \* the database: /pb/<id>/state
    deleted,    \* blocks that users have deleted
    strays      \* blocks on the lists of two devices when an operator moved
                \* one of these on by hand

deviceVars == <<obsState, at, scan, todo, given, realtime, link, receiver, addresses>>
databaseVars == <<block, state, deleted>>
vars == <<deviceVars, databaseVars, strays>>

Block == [exists : BOOLEAN, scan : Scans \union {None}]
State == [exists : BOOLEAN, map : Scans \union {None}, addresses : Scans \union {None}]

NoBlock == [exists |-> FALSE, scan |-> None]
NoState == [exists |-> FALSE, map |-> None, addresses |-> None]

TypeOK ==
    /\ obsState \in [Devices -> ObsStates]
    /\ at \in [Devices -> {"idle", "create", "update", "map", "put", "wait"}]
    /\ scan \in [Devices -> Scans \union {None}]
    /\ todo \in [Devices -> Seq(Blocks)]
    /\ given \in [Devices -> SUBSET RealTime]
    /\ realtime \in [Devices -> SUBSET RealTime]
    /\ link \in [Devices -> RealTime \union {None}]
    /\ receiver \in [Devices -> RealTime \union {None}]
    /\ addresses \in [Devices -> Scans \union {None}]
    /\ block \in [Blocks -> Block]
    /\ state \in [Blocks -> State]
    /\ deleted \subseteq Blocks
    /\ strays \subseteq Blocks

(* init_device of each                                                      *)
Init ==
    /\ obsState = [d \in Devices |-> "IDLE"]
    /\ at = [d \in Devices |-> "idle"]
    /\ scan = [d \in Devices |-> None]
    /\ todo = [d \in Devices |-> <<>>]
    /\ given = [d \in Devices |-> {}]
    /\ realtime = [d \in Devices |-> {}]
    /\ link = [d \in Devices |-> None]
    /\ receiver = [d \in Devices |-> None]
    /\ addresses = [d \in Devices |-> None]
    /\ block = [b \in Blocks |-> NoBlock]
    /\ state = [b \in Blocks |-> NoState]
    /\ deleted = {}
    /\ strays = {}

Configured(d) == obsState[d] \in {"READY", "SCANNING"}

SetObsState(d, value) == obsState' = [obsState EXCEPT ![d] = value]
Goto(d, place) == at' = [at EXCEPT ![d] = place]

(* What the last command had in its local variables.                        *)
Forget(d) ==
    /\ scan' = [scan EXCEPT ![d] = None]
    /\ todo' = [todo EXCEPT ![d] = <<>>]
    /\ given' = [given EXCEPT ![d] = {}]
    /\ link' = [link EXCEPT ![d] = None]

(* An exception ends the command; obsState stays as it is.                  *)
CommandRaises(d) ==
    /\ Goto(d, "idle")
    /\ Forget(d)
    /\ UNCHANGED <<obsState, receiver, addresses, databaseVars>>

-----------------------------------------------------------------------------
(* Commands.  Configurations that do not validate change nothing.           *)
Configure(d) ==
    /\ at[d] = "idle"
    /\ obsState[d] = "IDLE"
    /\ \E c \in Configurations, s \in Scans :
         /\ scan' = [scan EXCEPT ![d] = s]
         /\ todo' = [todo EXCEPT ![d] = c.blocks]
         /\ given' = [given EXCEPT ![d] = c.given]
         /\ link' = [link EXCEPT ![d] = c.receiver]
    /\ SetObsState(d, "CONFIGURING")
    /\ Goto(d, "create")
    /\ UNCHANGED <<realtime, receiver, addresses, databaseVars>>

ConfigureScan(d) ==
    /\ at[d] = "idle"
    /\ obsState[d] = "READY"
    /\ \E u \in Updates, s \in Scans :
         /\ scan' = [scan EXCEPT ![d] = s]
         /\ todo' = [todo EXCEPT ![d] = u]
         /\ given' = [given EXCEPT ![d] = Range(u) \intersect realtime[d]]
    /\ SetObsState(d, "CONFIGURING")
    /\ Goto(d, "update")
    /\ UNCHANGED <<realtime, link, receiver, addresses, databaseVars>>

Scan(d) ==
    /\ at[d] = "idle"
    /\ obsState[d] = "READY"
    /\ SetObsState(d, "SCANNING")
    /\ UNCHANGED <<at, scan, todo, given, realtime, link, receiver, addresses, databaseVars>>

EndScan(d) ==
    /\ at[d] = "idle"
    /\ obsState[d] = "SCANNING"
    /\ addresses' = [addresses EXCEPT ![d] = None]
    /\ SetObsState(d, "READY")
    /\ UNCHANGED <<at, scan, todo, given, realtime, link, receiver, databaseVars>>

EndSB(d) ==
    /\ at[d] = "idle"
    /\ obsState[d] = "READY"
    /\ realtime' = [realtime EXCEPT ![d] = {}]
    /\ receiver' = [receiver EXCEPT ![d] = None]
    /\ Forget(d)
    /\ SetObsState(d, "IDLE")
    /\ UNCHANGED <<at, addresses, databaseVars>>

(* _require_obs_state: a command in the wrong state leads to FAULT.  (In    *)
(* every state some command is wrong.)                                      *)
Refuse(d) ==
    /\ at[d] = "idle"
    /\ SetObsState(d, "FAULT")
    /\ UNCHANGED <<at, scan, todo, given, realtime, link, receiver, addresses, databaseVars>>

(* Any value can be written.  One of these lets the device take commands    *)
(* that it would refuse, with the list that the last command left.          *)
Promotes(d, value) == value \in {"IDLE", "READY", "SCANNING"} /\ ~Configured(d)

ListedTwice(d) == realtime[d] \intersect UNION {realtime[e] : e \in Devices \ {d}}

WriteObsState(d) ==
    /\ at[d] = "idle"
    /\ \E value \in Writable :
         /\ SetObsState(d, value)
         /\ strays' = IF Promotes(d, value) THEN strays \union ListedTwice(d) ELSE strays
    /\ UNCHANGED <<at, scan, todo, given, realtime, link, receiver, addresses, databaseVars>>

(* init_device, by command or because the server is started anew, possibly  *)
(* in the middle of a command.                                              *)
InitDevice(d) ==
    /\ SetObsState(d, "IDLE")
    /\ Goto(d, "idle")
    /\ Forget(d)
    /\ realtime' = [realtime EXCEPT ![d] = {}]
    /\ receiver' = [receiver EXCEPT ![d] = None]
    /\ addresses' = [addresses EXCEPT ![d] = None]
    /\ UNCHANGED databaseVars

-----------------------------------------------------------------------------
(* _create_processing_blocks: the block is listed first, and then created   *)
(* with an empty state in one transaction, which raises Collision if there  *)
(* is one already.                                                          *)
ScanParameters(d, b) == IF b \in given[d] THEN scan[d] ELSE None

(* A variant that makes no difference between real-time and batch blocks.   *)
ListAll(d, b) == realtime' = [realtime EXCEPT ![d] = @ \union {b}]

List(d, b) == realtime' = [realtime EXCEPT ![d] = @ \union ({b} \intersect RealTime)]

(* A variant that overwrites.                                               *)
MayCreateAlways(b) == TRUE

MayCreate(b) == ~block[b].exists /\ ~state[b].exists

CreateBlock(d) ==
    /\ at[d] = "create"
    /\ todo[d] # <<>>
    /\ LET b == Head(todo[d]) IN
         /\ List(d, b)
         /\ \/ /\ MayCreate(b)
               /\ todo' = [todo EXCEPT ![d] = Tail(@)]
               /\ block' = [block EXCEPT ![b] = [exists |-> TRUE, scan |-> ScanParameters(d, b)]]
               /\ state' = [state EXCEPT ![b] = [NoState EXCEPT !.exists = TRUE]]
               /\ UNCHANGED <<obsState, at, scan, given, link, receiver, addresses, deleted>>
            \/ ~MayCreate(b) /\ CommandRaises(d)

BlocksCreated(d) ==
    /\ at[d] = "create"
    /\ todo[d] = <<>>
    /\ receiver' = [receiver EXCEPT ![d] = link[d]]
    /\ link' = [link EXCEPT ![d] = None]
    /\ Goto(d, "map")
    /\ UNCHANGED <<obsState, scan, todo, given, realtime, addresses, databaseVars>>

(* _update_scan_parameters                                                  *)
SkipBlock(d) ==
    /\ at[d] = "update"
    /\ todo[d] # <<>>
    /\ Head(todo[d]) \notin realtime[d]
    /\ todo' = [todo EXCEPT ![d] = Tail(@)]
    /\ UNCHANGED <<obsState, at, scan, given, realtime, link, receiver, addresses, databaseVars>>

(* A variant that writes the parameters with the scan they had.             *)
NewParametersOld(d, b) == block[b]

NewParameters(d, b) == [block[b] EXCEPT !.scan = scan[d]]

UpdateBlock(d) ==
    /\ at[d] = "update"
    /\ todo[d] # <<>>
    /\ Head(todo[d]) \in realtime[d]
    /\ LET b == Head(todo[d]) IN
         IF block[b].exists
           THEN /\ block' = [block EXCEPT ![b] = NewParameters(d, b)]
                /\ todo' = [todo EXCEPT ![d] = Tail(@)]
                /\ UNCHANGED <<obsState, at, scan, given, realtime, link, receiver,
                               addresses, state, deleted>>
           ELSE CommandRaises(d) /\ UNCHANGED realtime

BlocksUpdated(d) ==
    /\ at[d] = "update"
    /\ todo[d] = <<>>
    /\ Goto(d, "map")
    /\ UNCHANGED <<obsState, scan, todo, given, realtime, link, receiver, addresses, databaseVars>>

-----------------------------------------------------------------------------
(* _get_receive_addresses, and the end of Configure and ConfigureScan       *)
CommandSucceeds(d, value) ==
    /\ addresses' = [addresses EXCEPT ![d] = value]
    /\ SetObsState(d, "READY")
    /\ Goto(d, "idle")
    /\ UNCHANGED <<scan, todo, given, realtime, link, receiver, databaseVars>>

NoAddresses(d) ==
    /\ at[d] = "map"
    /\ receiver[d] = None
    /\ CommandSucceeds(d, None)

(* _get_channel_link_map polls an attribute of the CSP until it shows this  *)
(* scan; nothing is known of the attribute.                                 *)
LinkMapRead(d) ==
    /\ at[d] = "map"
    /\ receiver[d] # None
    /\ Goto(d, "put")
    /\ UNCHANGED <<obsState, scan, todo, given, realtime, link, receiver, addresses, databaseVars>>

(* It does not validate, or does not show the scan for too long.            *)
LinkMapFails(d) ==
    /\ at[d] = "map"
    /\ receiver[d] # None
    /\ SetObsState(d, "FAULT")
    /\ Goto(d, "idle")
    /\ Forget(d)
    /\ UNCHANGED <<realtime, receiver, addresses, databaseVars>>

LinkMapUnreadable(d) ==
    /\ at[d] = "map"
    /\ receiver[d] # None
    /\ CommandRaises(d)
    /\ UNCHANGED realtime

WithMap(d, b) == [state[b] EXCEPT !.map = scan[d]]

PutLinkMap(d) ==
    /\ at[d] = "put"
    /\ LET b == receiver[d] IN
         IF state[b].exists
           THEN /\ state' = [state EXCEPT ![b] = WithMap(d, b)]
                /\ Goto(d, "wait")
                /\ UNCHANGED <<obsState, scan, todo, given, realtime, link, receiver,
                               addresses, block, deleted>>
           ELSE CommandRaises(d) /\ UNCHANGED realtime

(* A variant that takes the addresses of any scan.                          *)
AnyAnswer(d, b) == state[b].addresses # None

Answered(d, b) == state[b].addresses = scan[d]

(* The transaction loops, waiting for changes, as long as none of these.    *)
TakeAddresses(d) ==
    /\ at[d] = "wait"
    /\ LET b == receiver[d] IN
         \/ /\ state[b].exists
            /\ Answered(d, b)
            /\ CommandSucceeds(d, state[b].addresses)
         \/ /\ ~state[b].exists
            /\ CommandRaises(d)
            /\ UNCHANGED realtime

-----------------------------------------------------------------------------
(* The workflow of a block may answer the channel link map with addresses.  *)
(* (No workflow of the repository does: nothing relies on it.)              *)
Answer(b) ==
    /\ block[b].exists
    /\ state[b].exists
    /\ state[b].map # state[b].addresses
    /\ state' = [state EXCEPT ![b].addresses = state[b].map]
    /\ UNCHANGED <<deviceVars, block, deleted>>

(* sdpcfg delete, with -R (all) or without.                                 *)
UserDeletes(b) ==
    /\ b \in Deletable
    /\ block[b].exists
    /\ block' = [block EXCEPT ![b] = NoBlock]
    /\ \E all \in BOOLEAN : state' = IF all THEN [state EXCEPT ![b] = NoState] ELSE state
    /\ deleted' = deleted \union {b}
    /\ UNCHANGED deviceVars

Command(d) ==
    \/ Configure(d)
    \/ ConfigureScan(d)
    \/ Scan(d)
    \/ EndScan(d)
    \/ EndSB(d)
    \/ Refuse(d)

Proceed(d) ==
    \/ CreateBlock(d)
    \/ BlocksCreated(d)
    \/ SkipBlock(d)
    \/ UpdateBlock(d)
    \/ BlocksUpdated(d)
    \/ NoAddresses(d)
    \/ LinkMapRead(d)
    \/ LinkMapFails(d)
    \/ LinkMapUnreadable(d)
    \/ PutLinkMap(d)
    \/ TakeAddresses(d)

Next ==
    \/ /\ \/ \E d \in Devices : Command(d) \/ Proceed(d) \/ InitDevice(d)
          \/ \E b \in Blocks : Answer(b) \/ UserDeletes(b)
       /\ UNCHANGED strays
    \/ \E d \in Devices : WriteObsState(d)

Spec == Init /\ [][Next]_vars

-----------------------------------------------------------------------------
(* "Wait for receive addresses with same scan ID": between two commands,    *)
(* the addresses shown to the telescope are those of the scan that the last *)
(* command has configured, or none.  (After a command that failed, scan is  *)
(* None and the property says nothing: the old addresses are still shown.)  *)
AddressesOfScan ==
    \A d \in Devices :
        at[d] = "idle" /\ scan[d] # None => addresses[d] \in {None, scan[d]}

(* ConfigureScan changes "a real-time PB associated with this subarray":    *)
(* no block is on the lists of two configured devices.  The exceptions are  *)
(* blocks that users have deleted, so that their ids could be used again,   *)
(* and strays: a Configure that raised Collision leaves the block of the    *)
(* other device on the list, where it does no harm until an operator writes *)
(* IDLE, READY or SCANNING to obsState.                                     *)
BlocksAreOwn ==
    \A d, e \in Devices :
        d # e /\ Configured(d) /\ Configured(e)
            => realtime[d] \intersect realtime[e] \subseteq deleted \union strays

(* After Configure or ConfigureScan has succeeded, and until the device     *)
(* starts another command, all real-time blocks that the command had scan   *)
(* parameters for have its scan, whatever other devices do, with the same   *)
(* exceptions.  (A command that raises half-way leaves given empty: which   *)
(* of its blocks have the new scan, nothing says.)                          *)
ScanReachesBlocks ==
    \A d \in Devices : at[d] = "idle" =>
        \A b \in given[d] \ (deleted \union strays) :
            block[b] = [exists |-> TRUE, scan |-> scan[d]]

(* A command waits for the addresses without a timeout.  While it does, its *)
(* question stands: nobody has replaced its link map in the state of the    *)
(* receiver or removed the state, unless users have deleted the block.  So  *)
(* an answer, if a workflow gives one, ends the wait.                       *)
QuestionStands ==
    \A d \in Devices : at[d] = "wait" /\ receiver[d] \notin deleted =>
        state[receiver[d]].exists /\ state[receiver[d]].map = scan[d]
=============================================================================
