---------------------------- MODULE SubarrayProofs ----------------------------
(***************************************************************************)
(* Proofs about Subarray: what a configured device can rely on, for any    *)
(* devices, blocks, scans and configurations.                              *)
(***************************************************************************)
EXTENDS Subarray, SequenceTheorems, TLAPS

(* A device that may change the blocks on its list: its last command has    *)
(* not failed, or an operator lets it go on in spite of that.               *)
InCharge(d) == scan[d] # None \/ obsState[d] \in {"IDLE", "READY", "SCANNING"}

PhaseOK ==
    \A d \in Devices :
        /\ at[d] # "idle" => obsState[d] = "CONFIGURING" /\ scan[d] # None
        /\ at[d] \in {"put", "wait"} => receiver[d] # None

(* A block with scan parameters is on the list, or will be.                 *)
GivenOK ==
    \A d \in Devices :
        /\ given[d] \subseteq IF at[d] = "create" THEN realtime[d] \union Range(todo[d])
                                                 ELSE realtime[d]
        /\ scan[d] = None => given[d] = {}

(* Two devices in charge share no block, and a block on a list is in the    *)
(* database together with its state: with the exceptions of BlocksAreOwn.   *)
ListsOK ==
    /\ \A d, e \in Devices : d # e /\ InCharge(d) /\ InCharge(e)
         => realtime[d] \intersect realtime[e] \subseteq deleted \union strays
    /\ \A d \in Devices : \A b \in realtime[d] \ deleted : block[b].exists
    /\ \A b \in Blocks \ deleted : block[b].exists <=> state[b].exists

(* A block has the scan of its device from the moment when a command has    *)
(* created or updated it.                                                   *)
Pending(d) == IF at[d] \in {"create", "update"} THEN Range(todo[d]) ELSE {}

ScansOK ==
    \A d \in Devices :
        \A b \in ((given[d] \intersect realtime[d]) \ (deleted \union strays)) \ Pending(d) :
            block[b].scan = scan[d]

(* The blocks whose state is for a device to ask: its receiver, and the one *)
(* that will be when all blocks of its configuration have been created.     *)
Asked(d) ==
    ({receiver[d]} \union
        IF at[d] = "create" /\ link[d] \notin Range(todo[d]) THEN {link[d]} ELSE {}) \ {None}

ReceiversOK ==
    /\ \A d \in Devices : \A b \in Asked(d) \ deleted : state[b].exists
    /\ \A d, e \in Devices : d # e => Asked(d) \intersect Asked(e) \subseteq deleted

IInv ==
    /\ TypeOK
    /\ PhaseOK
    /\ GivenOK
    /\ ListsOK
    /\ ScansOK
    /\ AddressesOfScan
    /\ ReceiversOK
    /\ QuestionStands

-----------------------------------------------------------------------------
(* The loop over the blocks of a configuration.                             *)
LEMMA RangeOfRest ==
    ASSUME NEW s \in Seq(Blocks), s # <<>>
    PROVE  /\ Head(s) \in Blocks
           /\ Tail(s) \in Seq(Blocks)
           /\ Range(s) = {Head(s)} \union Range(Tail(s))
PROOF
<1>1. Head(s) \in Blocks /\ Tail(s) \in Seq(Blocks) /\ s[1] = Head(s) /\ 1 \in DOMAIN s
  OBVIOUS
<1>2. Range(s) \subseteq {Head(s)} \union Range(Tail(s))
  <2> SUFFICES ASSUME NEW i \in DOMAIN s, s[i] # Head(s)
               PROVE  s[i] \in Range(Tail(s))
    BY DEF Range
  <2>1. i - 1 \in DOMAIN Tail(s) /\ Tail(s)[i - 1] = s[i]
    BY <1>1
  <2> QED
    BY <2>1 DEF Range
<1>3. Range(Tail(s)) \subseteq Range(s)
  <2> SUFFICES ASSUME NEW i \in DOMAIN Tail(s)
               PROVE  Tail(s)[i] \in Range(s)
    BY DEF Range
  <2>1. i + 1 \in DOMAIN s /\ Tail(s)[i] = s[i + 1]
    OBVIOUS
  <2> QED
    BY <2>1 DEF Range
<1> QED
  BY <1>1, <1>2, <1>3 DEF Range

(* Every step is one of these.                                              *)
LEMMA StepKinds ==
    ASSUME [Next]_vars
    PROVE  \/ /\ \/ \E d \in Devices : Command(d) \/ Proceed(d) \/ InitDevice(d)
                 \/ \E b \in Blocks : Answer(b) \/ UserDeletes(b)
              /\ UNCHANGED strays
           \/ \E d \in Devices : WriteObsState(d)
           \/ UNCHANGED vars
PROOF
  BY DEF Next

-----------------------------------------------------------------------------
LEMMA CommandType ==
    ASSUME TypeOK, NEW d \in Devices, Command(d), UNCHANGED strays
    PROVE  TypeOK'
PROOF
<1> USE SubarrayAssumption DEF TypeOK, databaseVars, ObsStates
<1>1. CASE Configure(d)
  <2> PICK c \in Configurations, s \in Scans :
         /\ scan' = [scan EXCEPT ![d] = s]
         /\ todo' = [todo EXCEPT ![d] = c.blocks]
         /\ given' = [given EXCEPT ![d] = c.given]
         /\ link' = [link EXCEPT ![d] = c.receiver]
    BY <1>1 DEF Configure
  <2>1. c.blocks \in Seq(Blocks) /\ c.given \in SUBSET RealTime /\ c.receiver \in RealTime \union {None}
    BY DEF Argument
  <2> QED
    BY <1>1, <2>1 DEF Configure, SetObsState, Goto
<1>2. CASE ConfigureScan(d)
  BY <1>2 DEF ConfigureScan, SetObsState, Goto
<1>3. CASE Scan(d)
  BY <1>3 DEF Scan, SetObsState
<1>4. CASE EndScan(d)
  BY <1>4 DEF EndScan, SetObsState
<1>5. CASE EndSB(d)
  <2>1. <<>> \in Seq(Blocks)
    OBVIOUS
  <2> QED
    BY <1>5, <2>1 DEF EndSB, SetObsState, Forget
<1>6. CASE Refuse(d)
  BY <1>6 DEF Refuse, SetObsState
<1> QED
  BY <1>1, <1>2, <1>3, <1>4, <1>5, <1>6 DEF Command

LEMMA RaisesType ==
    ASSUME TypeOK, NEW d \in Devices, CommandRaises(d), UNCHANGED strays,
           realtime' \in [Devices -> SUBSET RealTime]
    PROVE  TypeOK'
PROOF
<1>1. <<>> \in Seq(Blocks)
  OBVIOUS
<1> QED
  BY <1>1 DEF TypeOK, CommandRaises, Forget, Goto, databaseVars

LEMMA SuccessType ==
    ASSUME TypeOK, NEW d \in Devices, NEW value \in Scans \union {None},
           CommandSucceeds(d, value), UNCHANGED strays
    PROVE  TypeOK'
PROOF
  BY DEF TypeOK, ObsStates, CommandSucceeds, SetObsState, Goto, databaseVars

LEMMA ProceedType ==
    ASSUME TypeOK, PhaseOK, NEW d \in Devices, Proceed(d), UNCHANGED strays
    PROVE  TypeOK'
PROOF
<1> USE SubarrayAssumption DEF databaseVars
<1>1. CASE CreateBlock(d)
  <2> DEFINE b == Head(todo[d])
  <2>1. todo[d] \in Seq(Blocks) /\ b \in Blocks /\ Tail(todo[d]) \in Seq(Blocks)
    BY <1>1, RangeOfRest DEF CreateBlock, TypeOK
  <2>2. realtime' \in [Devices -> SUBSET RealTime]
    BY <1>1 DEF CreateBlock, List, TypeOK
  <2>3. CASE ~MayCreate(b) /\ CommandRaises(d)
    BY <2>2, <2>3, RaisesType
  <2>4. CASE ~(~MayCreate(b) /\ CommandRaises(d))
    <3>1. ScanParameters(d, b) \in Scans \union {None}
      BY DEF ScanParameters, TypeOK
    <3>2. /\ todo' = [todo EXCEPT ![d] = Tail(@)]
          /\ block' = [block EXCEPT ![b] = [exists |-> TRUE, scan |-> ScanParameters(d, b)]]
          /\ state' = [state EXCEPT ![b] = [NoState EXCEPT !.exists = TRUE]]
          /\ UNCHANGED <<obsState, at, scan, given, link, receiver, addresses, deleted>>
      BY <1>1, <2>4 DEF CreateBlock
    <3>3. /\ [exists |-> TRUE, scan |-> ScanParameters(d, b)] \in Block
          /\ [NoState EXCEPT !.exists = TRUE] \in State
      BY <3>1 DEF Block, State, NoState
    <3>4. /\ todo' \in [Devices -> Seq(Blocks)]
          /\ block' \in [Blocks -> Block]
          /\ state' \in [Blocks -> State]
      BY <2>1, <3>2, <3>3 DEF TypeOK
    <3> QED
      BY <2>2, <3>2, <3>4 DEF TypeOK
  <2> QED
    BY <2>3, <2>4
<1>2. CASE BlocksCreated(d)
  BY <1>2 DEF BlocksCreated, TypeOK, Goto
<1>3. CASE SkipBlock(d)
  <2>1. Tail(todo[d]) \in Seq(Blocks)
    BY <1>3, RangeOfRest DEF SkipBlock, TypeOK
  <2> QED
    BY <1>3, <2>1 DEF SkipBlock, TypeOK
<1>4. CASE UpdateBlock(d)
  <2> DEFINE b == Head(todo[d])
  <2>1. b \in Blocks /\ Tail(todo[d]) \in Seq(Blocks)
    BY <1>4, RangeOfRest DEF UpdateBlock, TypeOK
  <2>2. CASE block[b].exists
    <3>1. NewParameters(d, b) \in Block
      BY <2>1 DEF NewParameters, Block, TypeOK
    <3>2. /\ block' = [block EXCEPT ![b] = NewParameters(d, b)]
          /\ todo' = [todo EXCEPT ![d] = Tail(@)]
          /\ UNCHANGED <<obsState, at, scan, given, realtime, link, receiver,
                         addresses, state, deleted>>
      BY <1>4, <2>2 DEF UpdateBlock
    <3>3. block' \in [Blocks -> Block] /\ todo' \in [Devices -> Seq(Blocks)]
      BY <2>1, <3>1, <3>2 DEF TypeOK
    <3> QED
      BY <3>2, <3>3 DEF TypeOK
  <2>3. CASE ~block[b].exists
    BY <1>4, <2>3, RaisesType DEF UpdateBlock, TypeOK
  <2> QED
    BY <2>2, <2>3
<1>5. CASE BlocksUpdated(d)
  BY <1>5 DEF BlocksUpdated, TypeOK, Goto
<1>6. CASE NoAddresses(d)
  BY <1>6, SuccessType DEF NoAddresses
<1>7. CASE LinkMapRead(d)
  BY <1>7 DEF LinkMapRead, TypeOK, Goto
<1>8. CASE LinkMapFails(d)
  <2>1. <<>> \in Seq(Blocks)
    OBVIOUS
  <2> QED
    BY <1>8, <2>1 DEF LinkMapFails, TypeOK, Goto, SetObsState, Forget, ObsStates
<1>9. CASE LinkMapUnreadable(d)
  BY <1>9, RaisesType DEF LinkMapUnreadable, TypeOK
<1>10. CASE PutLinkMap(d)
  <2> DEFINE b == receiver[d]
  <2>1. b \in Blocks
    BY <1>10 DEF PutLinkMap, PhaseOK, TypeOK
  <2>2. CASE state[b].exists
    <3>1. WithMap(d, b) \in State
      BY <2>1 DEF WithMap, State, TypeOK
    <3>2. /\ state' = [state EXCEPT ![b] = WithMap(d, b)]
          /\ Goto(d, "wait")
          /\ UNCHANGED <<obsState, scan, todo, given, realtime, link, receiver,
                         addresses, block, deleted>>
      BY <1>10, <2>2 DEF PutLinkMap
    <3>3. state' \in [Blocks -> State]
      BY <2>1, <3>1, <3>2 DEF TypeOK
    <3> QED
      BY <3>2, <3>3 DEF TypeOK, Goto
  <2>3. CASE ~state[b].exists
    BY <1>10, <2>3, RaisesType DEF PutLinkMap, TypeOK
  <2> QED
    BY <2>2, <2>3
<1>11. CASE TakeAddresses(d)
  <2> DEFINE b == receiver[d]
  <2>1. b \in Blocks /\ state[b].addresses \in Scans \union {None}
    BY <1>11 DEF TakeAddresses, PhaseOK, TypeOK, State
  <2>2. CASE CommandSucceeds(d, state[b].addresses)
    BY <2>1, <2>2, SuccessType
  <2>3. CASE CommandRaises(d) /\ UNCHANGED realtime
    BY <2>3, RaisesType DEF TypeOK
  <2> QED
    BY <1>11, <2>2, <2>3 DEF TakeAddresses
<1> QED
  BY <1>1, <1>2, <1>3, <1>4, <1>5, <1>6, <1>7, <1>8, <1>9, <1>10, <1>11 DEF Proceed

LEMMA TypeStep ==
    ASSUME TypeOK, PhaseOK, [Next]_vars
    PROVE  TypeOK'
PROOF
<1> USE DEF databaseVars, deviceVars
<1>1. ASSUME NEW d \in Devices, InitDevice(d), UNCHANGED strays
      PROVE  TypeOK'
  <2>1. <<>> \in Seq(Blocks)
    OBVIOUS
  <2> QED
    BY <1>1, <2>1 DEF InitDevice, Forget, SetObsState, Goto, TypeOK, ObsStates
<1>2. ASSUME NEW b \in Blocks, Answer(b), UNCHANGED strays
      PROVE  TypeOK'
  BY <1>2 DEF Answer, TypeOK, State
<1>3. ASSUME NEW b \in Blocks, UserDeletes(b), UNCHANGED strays
      PROVE  TypeOK'
  BY <1>3 DEF UserDeletes, TypeOK, Block, State, NoBlock, NoState
<1>4. ASSUME NEW d \in Devices, WriteObsState(d)
      PROVE  TypeOK'
  <2>1. ListedTwice(d) \subseteq Blocks
    BY SubarrayAssumption DEF ListedTwice, TypeOK
  <2> QED
    BY <1>4, <2>1, SubarrayAssumption DEF WriteObsState, SetObsState, TypeOK
<1>5. CASE UNCHANGED vars
  BY <1>5 DEF TypeOK, vars
<1> QED
  BY <1>1, <1>2, <1>3, <1>4, <1>5, StepKinds, CommandType, ProceedType

-----------------------------------------------------------------------------
(* A step of one device leaves the others alone.                            *)
OthersSame(d) ==
    \A e \in Devices \ {d} :
        /\ obsState'[e] = obsState[e] /\ at'[e] = at[e]
        /\ scan'[e] = scan[e] /\ todo'[e] = todo[e] /\ given'[e] = given[e]
        /\ realtime'[e] = realtime[e] /\ link'[e] = link[e]
        /\ receiver'[e] = receiver[e] /\ addresses'[e] = addresses[e]

LEMMA OneDeviceMoves ==
    ASSUME TypeOK, NEW d \in Devices, Command(d) \/ Proceed(d) \/ InitDevice(d) \/ WriteObsState(d)
    PROVE  OthersSame(d)
PROOF
<1> USE DEF TypeOK, OthersSame, SetObsState, Goto, Forget, CommandRaises, CommandSucceeds,
            databaseVars
<1>1. CASE Command(d)
  BY <1>1 DEF Command, Configure, ConfigureScan, Scan, EndScan, EndSB, Refuse
<1>2. CASE CreateBlock(d) \/ BlocksCreated(d)
  BY <1>2 DEF CreateBlock, BlocksCreated, List
<1>3. CASE SkipBlock(d) \/ UpdateBlock(d) \/ BlocksUpdated(d)
  BY <1>3 DEF SkipBlock, UpdateBlock, BlocksUpdated
<1>4. CASE NoAddresses(d) \/ LinkMapRead(d) \/ LinkMapFails(d) \/ LinkMapUnreadable(d)
  BY <1>4 DEF NoAddresses, LinkMapRead, LinkMapFails, LinkMapUnreadable
<1>5. CASE PutLinkMap(d) \/ TakeAddresses(d)
  BY <1>5 DEF PutLinkMap, TakeAddresses
<1>6. CASE InitDevice(d) \/ WriteObsState(d)
  BY <1>6 DEF InitDevice, WriteObsState
<1> QED
  BY <1>1, <1>2, <1>3, <1>4, <1>5, <1>6 DEF Proceed

Rest == PhaseOK /\ GivenOK /\ ListsOK /\ ScansOK /\ AddressesOfScan

(* A command that fails, or an end of processing.                           *)
LEMMA Settled ==
    ASSUME TypeOK, Rest, NEW d \in Devices, OthersSame(d),
           UNCHANGED <<block, state, deleted, strays>>,
           at'[d] = "idle", scan'[d] = None, given'[d] = {},
           InCharge(d)' => realtime'[d] = {} \/ (InCharge(d) /\ realtime'[d] = realtime[d]),
           \A b \in realtime'[d] \ deleted : block[b].exists
    PROVE  Rest'
PROOF
<1> USE DEF Rest, OthersSame, InCharge
<1>1. PhaseOK'
  BY DEF PhaseOK
<1>2. GivenOK'
  BY DEF GivenOK
<1>3. ListsOK'
  BY DEF ListsOK
<1>4. ScansOK'
  BY DEF ScansOK, Pending
<1>5. AddressesOfScan'
  BY DEF AddressesOfScan
<1> QED
  BY <1>1, <1>2, <1>3, <1>4, <1>5

(* A device that goes on with the list it has.                              *)
LEMMA Continued ==
    ASSUME TypeOK, Rest, NEW d \in Devices, OthersSame(d), UNCHANGED <<block, deleted, strays>>,
           \A b \in Blocks : state'[b].exists = state[b].exists,
           InCharge(d)' => InCharge(d),
           at'[d] # "idle" => obsState'[d] = "CONFIGURING" /\ scan[d] # None,
           at'[d] \in {"put", "wait"} => receiver'[d] # None,
           at'[d] # "create",
           scan'[d] = scan[d], given'[d] = given[d], realtime'[d] = realtime[d],
           given[d] \subseteq realtime[d],
           Pending(d) \intersect realtime[d] \subseteq Pending(d)',
           at'[d] = "idle" /\ scan[d] # None => addresses'[d] \in {None, scan[d]}
    PROVE  Rest'
PROOF
<1> USE DEF Rest, OthersSame
<1>1. PhaseOK'
  BY DEF PhaseOK
<1>2. GivenOK'
  BY DEF GivenOK
<1>3. ListsOK'
  <2>1. \A e \in Devices \ {d} : InCharge(e)' <=> InCharge(e)
    BY DEF InCharge
  <2> QED
    BY <2>1 DEF ListsOK
<1>4. ScansOK'
  BY DEF ScansOK, Pending
<1>5. AddressesOfScan'
  BY DEF AddressesOfScan
<1> QED
  BY <1>1, <1>2, <1>3, <1>4, <1>5

LEMMA CommandRest ==
    ASSUME TypeOK, Rest, NEW d \in Devices, Command(d), UNCHANGED strays
    PROVE  Rest'
PROOF
<1>0. OthersSame(d)
  BY OneDeviceMoves
<1> USE DEF databaseVars
<1>1. CASE Configure(d)
  <2> PICK c \in Configurations, s \in Scans :
         /\ scan' = [scan EXCEPT ![d] = s]
         /\ todo' = [todo EXCEPT ![d] = c.blocks]
         /\ given' = [given EXCEPT ![d] = c.given]
         /\ link' = [link EXCEPT ![d] = c.receiver]
    BY <1>1 DEF Configure
  <2>1. /\ obsState[d] = "IDLE" /\ obsState'[d] = "CONFIGURING" /\ at'[d] = "create"
        /\ realtime'[d] = realtime[d] /\ todo'[d] = c.blocks /\ given'[d] = c.given
        /\ scan'[d] = s /\ s # None
        /\ UNCHANGED <<block, state, deleted, strays>>
    BY <1>1, SubarrayAssumption DEF Configure, SetObsState, Goto, TypeOK
  <2>2. c.given \subseteq Range(c.blocks)
    BY SubarrayAssumption
  <2> USE <1>0, <2>1 DEF Rest, OthersSame, InCharge
  <2>3. PhaseOK'
    BY DEF PhaseOK
  <2>4. GivenOK'
    BY <2>2 DEF GivenOK
  <2>5. ListsOK'
    BY DEF ListsOK
  <2>6. ScansOK'
    BY <2>2 DEF ScansOK, Pending
  <2>7. AddressesOfScan'
    BY DEF AddressesOfScan
  <2> QED
    BY <2>3, <2>4, <2>5, <2>6, <2>7
<1>2. CASE ConfigureScan(d)
  <2> PICK u \in Updates, s \in Scans :
         /\ scan' = [scan EXCEPT ![d] = s]
         /\ todo' = [todo EXCEPT ![d] = u]
         /\ given' = [given EXCEPT ![d] = Range(u) \intersect realtime[d]]
    BY <1>2 DEF ConfigureScan
  <2>1. /\ obsState[d] = "READY" /\ obsState'[d] = "CONFIGURING" /\ at'[d] = "update"
        /\ realtime'[d] = realtime[d] /\ todo'[d] = u
        /\ given'[d] = Range(u) \intersect realtime[d]
        /\ scan'[d] = s /\ s # None
        /\ UNCHANGED <<block, state, deleted, strays>>
    BY <1>2, SubarrayAssumption DEF ConfigureScan, SetObsState, Goto, TypeOK
  <2> USE <1>0, <2>1 DEF Rest, OthersSame, InCharge
  <2>2. PhaseOK'
    BY DEF PhaseOK
  <2>3. GivenOK'
    BY DEF GivenOK
  <2>4. ListsOK'
    BY DEF ListsOK
  <2>5. ScansOK'
    BY DEF ScansOK, Pending
  <2>6. AddressesOfScan'
    BY DEF AddressesOfScan
  <2> QED
    BY <2>2, <2>3, <2>4, <2>5, <2>6
<1>3. CASE Scan(d) \/ EndScan(d) \/ Refuse(d)
  <2>1. /\ at[d] = "idle"
        /\ InCharge(d)' => InCharge(d)
        /\ addresses'[d] \in {addresses[d], None}
        /\ UNCHANGED <<at, scan, todo, given, realtime, receiver, block, state, deleted>>
    BY <1>3 DEF Scan, EndScan, Refuse, SetObsState, InCharge, TypeOK
  <2>2. given[d] \subseteq realtime[d] /\ Pending(d) = {}
    BY <2>1 DEF Rest, GivenOK, Pending
  <2> QED
    BY <1>0, <2>1, <2>2, Continued DEF Rest, AddressesOfScan
<1>4. CASE EndSB(d)
  <2>1. /\ at'[d] = "idle" /\ scan'[d] = None /\ given'[d] = {} /\ realtime'[d] = {}
        /\ UNCHANGED <<block, state, deleted>>
    BY <1>4 DEF EndSB, Forget, TypeOK
  <2> QED
    BY <1>0, <2>1, Settled
<1> QED
  BY <1>1, <1>2, <1>3, <1>4 DEF Command

(* An operator moves a device on: what it shares with others are strays.    *)
LEMMA WriteRest ==
    ASSUME TypeOK, Rest, NEW d \in Devices, WriteObsState(d)
    PROVE  Rest'
PROOF
<1>1. /\ OthersSame(d) /\ at[d] = "idle" /\ strays \subseteq strays'
      /\ UNCHANGED <<at, scan, todo, given, realtime, receiver, addresses, block, state, deleted>>
  BY OneDeviceMoves DEF WriteObsState, databaseVars
<1>2. ASSUME InCharge(d)', ~InCharge(d), NEW e \in Devices \ {d}
      PROVE  realtime[d] \intersect realtime[e] \subseteq strays'
  <2>1. PICK value \in Writable :
          /\ obsState' = [obsState EXCEPT ![d] = value]
          /\ strays' = IF Promotes(d, value) THEN strays \union ListedTwice(d) ELSE strays
    BY DEF WriteObsState, SetObsState
  <2>2. Promotes(d, value)
    BY <1>1, <1>2, <2>1 DEF Promotes, Configured, InCharge, TypeOK
  <2>3. realtime[e] \subseteq UNION {realtime[f] : f \in Devices \ {d}}
    OBVIOUS
  <2> QED
    BY <2>1, <2>2, <2>3 DEF ListedTwice
<1> USE <1>1 DEF Rest, OthersSame
<1>3. PhaseOK' /\ GivenOK' /\ AddressesOfScan'
  BY DEF PhaseOK, GivenOK, AddressesOfScan
<1>4. ListsOK'
  <2>1. \A e \in Devices \ {d} : InCharge(e)' <=> InCharge(e)
    BY DEF InCharge
  <2> QED
    BY <1>2, <2>1 DEF ListsOK
<1>5. ScansOK'
  BY DEF ScansOK, Pending
<1> QED
  BY <1>3, <1>4, <1>5

(* A command that fails.                                                    *)
LEMMA RaisesRest ==
    ASSUME TypeOK, Rest, NEW d \in Devices, OthersSame(d), at[d] # "idle", CommandRaises(d),
           UNCHANGED strays, \A b \in realtime'[d] \ deleted : block[b].exists
    PROVE  Rest'
PROOF
<1>1. /\ at'[d] = "idle" /\ obsState'[d] = "CONFIGURING" /\ scan'[d] = None /\ given'[d] = {}
      /\ UNCHANGED <<block, state, deleted>>
  BY DEF CommandRaises, Forget, Goto, TypeOK, Rest, PhaseOK, databaseVars
<1> QED
  BY <1>1, Settled DEF InCharge

(* A command that ends with addresses, or without.                          *)
LEMMA SuccessRest ==
    ASSUME TypeOK, Rest, NEW d \in Devices, OthersSame(d), NEW value \in {None, scan[d]},
           at[d] \notin {"idle", "create", "update"}, CommandSucceeds(d, value),
           UNCHANGED strays
    PROVE  Rest'
PROOF
<1>1. /\ at'[d] = "idle" /\ addresses'[d] = value
      /\ UNCHANGED <<scan, given, realtime, block, state, deleted>>
  BY DEF CommandSucceeds, Goto, TypeOK, databaseVars
<1>2. given[d] \subseteq realtime[d] /\ Pending(d) = {} /\ InCharge(d)
  BY DEF Rest, PhaseOK, GivenOK, Pending, InCharge
<1> QED
  BY <1>1, <1>2, Continued

(* A new block is on no list of an active device, or else had been deleted. *)
LEMMA CreateRest ==
    ASSUME TypeOK, Rest, NEW d \in Devices, CreateBlock(d), UNCHANGED strays
    PROVE  Rest'
PROOF
<1> DEFINE b == Head(todo[d])
<1>0. /\ OthersSame(d) /\ at[d] = "create" /\ scan[d] # None
      /\ realtime'[d] = realtime[d] \union ({b} \intersect RealTime)
  BY OneDeviceMoves DEF Proceed, CreateBlock, List, TypeOK, Rest, PhaseOK
<1>1. b \in Blocks /\ Range(todo[d]) = {b} \union Range(Tail(todo[d]))
  BY RangeOfRest DEF CreateBlock, TypeOK
<1>2. CASE ~MayCreate(b) /\ CommandRaises(d)
  <2>1. b \notin deleted => block[b].exists
    BY <1>1, <1>2 DEF MayCreate, Rest, ListsOK
  <2> QED
    BY <1>0, <1>2, <2>1, RaisesRest DEF Rest, ListsOK
<1>3. CASE ~(~MayCreate(b) /\ CommandRaises(d))
  <2>1. /\ MayCreate(b)
        /\ todo'[d] = Tail(todo[d])
        /\ block' = [block EXCEPT ![b] = [exists |-> TRUE, scan |-> ScanParameters(d, b)]]
        /\ state' = [state EXCEPT ![b] = [NoState EXCEPT !.exists = TRUE]]
        /\ UNCHANGED <<obsState, at, scan, given, receiver, addresses, deleted, strays>>
    BY <1>3 DEF CreateBlock, TypeOK
  <2>2. /\ block'[b] = [exists |-> TRUE, scan |-> ScanParameters(d, b)]
        /\ state'[b].exists
        /\ \A c \in Blocks \ {b} : block'[c] = block[c] /\ state'[c] = state[c]
    BY <1>1, <2>1 DEF TypeOK, NoState
  <2>3. \A e \in Devices : b \in realtime[e] => b \in deleted
    BY <2>1 DEF Rest, ListsOK, MayCreate
  <2> USE <1>0, <2>1 DEF Rest, OthersSame
  <2>4. PhaseOK'
    BY DEF PhaseOK
  <2>5. GivenOK'
    BY <1>1 DEF GivenOK, TypeOK
  <2>6. ListsOK'
    <3>1. ASSUME NEW e \in Devices \ {d}, InCharge(e)'
          PROVE  realtime'[d] \intersect realtime'[e] \subseteq deleted \union strays
      BY <2>3, <3>1 DEF ListsOK, InCharge
    <3>2. ASSUME NEW e \in Devices, NEW c \in realtime'[e] \ deleted
          PROVE  block'[c].exists
      <4>1. c = b \/ c \in realtime[e]
        BY DEF TypeOK
      <4>2. c \in Blocks
        BY <1>1, <4>1, SubarrayAssumption DEF TypeOK
      <4> QED
        BY <2>2, <4>1, <4>2 DEF ListsOK
    <3>3. ASSUME NEW c \in Blocks \ deleted
          PROVE  block'[c].exists <=> state'[c].exists
      BY <2>2 DEF ListsOK
    <3>4. \A e \in Devices : InCharge(e)' <=> InCharge(e)
      BY DEF InCharge
    <3> QED
      BY <3>1, <3>2, <3>3, <3>4 DEF ListsOK
  <2>7. ScansOK'
    <3> SUFFICES ASSUME NEW e \in Devices,
                        NEW c \in ((given'[e] \intersect realtime'[e])
                                     \ (deleted \union strays)) \ Pending(e)'
                 PROVE  block'[c].scan = scan'[e]
      BY DEF ScansOK
    <3>1. c \in Blocks
      BY SubarrayAssumption DEF TypeOK
    <3>2. CASE c = b
      <4>1. e = d
        BY <2>3, <3>2
      <4> QED
        BY <2>2, <3>2, <4>1 DEF ScanParameters
    <3>3. CASE c # b
      <4>1. c \in realtime[e] /\ c \notin Pending(e)
        BY <1>1, <3>3 DEF Pending
      <4> QED
        BY <2>2, <3>1, <3>3, <4>1 DEF ScansOK
    <3> QED
      BY <3>2, <3>3
  <2>8. AddressesOfScan'
    BY DEF AddressesOfScan
  <2> QED
    BY <2>4, <2>5, <2>6, <2>7, <2>8
<1> QED
  BY <1>2, <1>3

(* No other device in charge has the block that is updated, with the        *)
(* exceptions.                                                              *)
LEMMA UpdateRest ==
    ASSUME TypeOK, Rest, NEW d \in Devices, UpdateBlock(d), UNCHANGED strays
    PROVE  Rest'
PROOF
<1> DEFINE b == Head(todo[d])
<1>0. OthersSame(d) /\ at[d] = "update" /\ scan[d] # None /\ b \in realtime[d]
  BY OneDeviceMoves DEF Proceed, UpdateBlock, Rest, PhaseOK
<1>1. b \in Blocks /\ Range(todo[d]) = {b} \union Range(Tail(todo[d]))
  BY RangeOfRest DEF UpdateBlock, TypeOK
<1>2. CASE ~block[b].exists
  BY <1>0, <1>2, RaisesRest DEF UpdateBlock, Rest, ListsOK
<1>3. CASE block[b].exists
  <2>1. /\ todo'[d] = Tail(todo[d])
        /\ block' = [block EXCEPT ![b] = NewParameters(d, b)]
        /\ UNCHANGED <<obsState, at, scan, given, realtime, receiver, addresses,
                       state, deleted, strays>>
    BY <1>3 DEF UpdateBlock, TypeOK
  <2>2. block'[b].exists /\ block'[b].scan = scan[d]
        /\ \A c \in Blocks \ {b} : block'[c] = block[c]
    BY <1>1, <1>3, <2>1 DEF TypeOK, Block, NewParameters
  <2>3. \A e \in Devices \ {d} :
          b \in realtime[e] /\ given[e] # {} => b \in deleted \union strays
    BY <1>0 DEF Rest, ListsOK, GivenOK, InCharge
  <2> USE <1>0, <2>1 DEF Rest, OthersSame
  <2>4. PhaseOK'
    BY DEF PhaseOK
  <2>5. GivenOK'
    BY <1>1 DEF GivenOK, TypeOK
  <2>6. ListsOK'
    <3>1. \A e \in Devices : InCharge(e)' <=> InCharge(e)
      BY DEF InCharge
    <3>2. \A c \in Blocks : block'[c].exists <=> block[c].exists
      BY <1>1, <1>3, <2>2
    <3>3. \A e \in Devices : realtime[e] \subseteq Blocks
      BY SubarrayAssumption DEF TypeOK
    <3> QED
      BY <3>1, <3>2, <3>3 DEF ListsOK
  <2>7. ScansOK'
    <3> SUFFICES ASSUME NEW e \in Devices,
                        NEW c \in ((given'[e] \intersect realtime'[e])
                                     \ (deleted \union strays)) \ Pending(e)'
                 PROVE  block'[c].scan = scan'[e]
      BY DEF ScansOK
    <3>1. c \in Blocks
      BY SubarrayAssumption DEF TypeOK
    <3>2. CASE c = b
      <4>1. e = d
        BY <2>3, <3>2
      <4> QED
        BY <2>2, <3>2, <4>1
    <3>3. CASE c # b
      <4>1. c \in realtime[e] /\ c \notin Pending(e)
        BY <1>1, <3>3 DEF Pending
      <4> QED
        BY <2>2, <3>1, <3>3, <4>1 DEF ScansOK
    <3> QED
      BY <3>2, <3>3
  <2>8. AddressesOfScan'
    BY DEF AddressesOfScan
  <2> QED
    BY <2>4, <2>5, <2>6, <2>7, <2>8
<1> QED
  BY <1>2, <1>3

LEMMA ProceedRest ==
    ASSUME TypeOK, Rest, NEW d \in Devices, Proceed(d), UNCHANGED strays
    PROVE  Rest'
PROOF
<1>0. OthersSame(d) /\ \A b \in realtime[d] \ deleted : block[b].exists
  BY OneDeviceMoves DEF Rest, ListsOK
<1>1. CASE CreateBlock(d)
  BY <1>1, CreateRest
<1>2. CASE BlocksCreated(d)
  <2>1. /\ at[d] = "create" /\ at'[d] = "map"
        /\ obsState[d] = "CONFIGURING" /\ scan[d] # None /\ Range(todo[d]) = {}
        /\ UNCHANGED <<obsState, scan, given, realtime, block, state, deleted>>
    BY <1>2 DEF BlocksCreated, Goto, TypeOK, Rest, PhaseOK, Range, databaseVars
  <2>2. given[d] \subseteq realtime[d]
    BY <2>1 DEF Rest, GivenOK
  <2> QED
    BY <1>0, <2>1, <2>2, Continued DEF InCharge, Pending
<1>3. CASE SkipBlock(d)
  <2>1. /\ at[d] = "update" /\ obsState[d] = "CONFIGURING" /\ scan[d] # None
        /\ Head(todo[d]) \notin realtime[d]
        /\ Range(todo[d]) = {Head(todo[d])} \union Range(todo'[d])
        /\ UNCHANGED <<obsState, at, scan, given, realtime, receiver, block, state, deleted>>
    BY <1>3, RangeOfRest DEF SkipBlock, TypeOK, Rest, PhaseOK, databaseVars
  <2>2. given[d] \subseteq realtime[d]
    BY <2>1 DEF Rest, GivenOK
  <2> QED
    BY <1>0, <2>1, <2>2, Continued DEF InCharge, Pending
<1>4. CASE UpdateBlock(d)
  BY <1>4, UpdateRest
<1>5. CASE BlocksUpdated(d)
  <2>1. /\ at[d] = "update" /\ at'[d] = "map"
        /\ obsState[d] = "CONFIGURING" /\ scan[d] # None /\ Range(todo[d]) = {}
        /\ UNCHANGED <<obsState, scan, given, realtime, block, state, deleted>>
    BY <1>5 DEF BlocksUpdated, Goto, TypeOK, Rest, PhaseOK, Range, databaseVars
  <2>2. given[d] \subseteq realtime[d]
    BY <2>1 DEF Rest, GivenOK
  <2> QED
    BY <1>0, <2>1, <2>2, Continued DEF InCharge, Pending
<1>6. CASE NoAddresses(d)
  BY <1>0, <1>6, SuccessRest DEF NoAddresses
<1>7. CASE LinkMapRead(d)
  <2>1. /\ at[d] = "map" /\ at'[d] = "put"
        /\ obsState[d] = "CONFIGURING" /\ scan[d] # None /\ receiver'[d] # None
        /\ UNCHANGED <<obsState, scan, given, realtime, block, state, deleted>>
    BY <1>7 DEF LinkMapRead, Goto, TypeOK, Rest, PhaseOK, databaseVars
  <2>2. given[d] \subseteq realtime[d]
    BY <2>1 DEF Rest, GivenOK
  <2> QED
    BY <1>0, <2>1, <2>2, Continued DEF InCharge, Pending
<1>8. CASE LinkMapFails(d)
  <2>1. /\ at'[d] = "idle" /\ obsState'[d] = "FAULT" /\ scan'[d] = None /\ given'[d] = {}
        /\ UNCHANGED <<realtime, block, state, deleted>>
    BY <1>8 DEF LinkMapFails, SetObsState, Goto, Forget, TypeOK, databaseVars
  <2> QED
    BY <1>0, <2>1, Settled DEF InCharge
<1>9. CASE LinkMapUnreadable(d)
  BY <1>0, <1>9, RaisesRest DEF LinkMapUnreadable
<1>10. CASE PutLinkMap(d)
  <2>1. CASE ~state[receiver[d]].exists
    BY <1>0, <1>10, <2>1, RaisesRest DEF PutLinkMap
  <2>2. CASE state[receiver[d]].exists
    <3>1. /\ at[d] = "put" /\ at'[d] = "wait"
          /\ obsState[d] = "CONFIGURING" /\ scan[d] # None
          /\ receiver[d] # None
          /\ state' = [state EXCEPT ![receiver[d]] = WithMap(d, receiver[d])]
          /\ UNCHANGED <<obsState, scan, given, realtime, receiver, block, deleted>>
      BY <1>10, <2>2 DEF PutLinkMap, Goto, TypeOK, Rest, PhaseOK
    <3>2. given[d] \subseteq realtime[d]
      BY <3>1 DEF Rest, GivenOK
    <3>3. \A b \in Blocks : state'[b].exists = state[b].exists
      BY <3>1 DEF WithMap, TypeOK, State
    <3> QED
      BY <1>0, <3>1, <3>2, <3>3, Continued DEF InCharge, Pending
  <2> QED
    BY <2>1, <2>2
<1>11. CASE TakeAddresses(d)
  <2>1. CASE CommandRaises(d) /\ UNCHANGED realtime
    BY <1>0, <1>11, <2>1, RaisesRest DEF TakeAddresses
  <2>2. CASE ~(CommandRaises(d) /\ UNCHANGED realtime)
    BY <1>0, <1>11, <2>2, SuccessRest DEF TakeAddresses, Answered
  <2> QED
    BY <2>1, <2>2
<1> QED
  BY <1>1, <1>2, <1>3, <1>4, <1>5, <1>6, <1>7, <1>8, <1>9, <1>10, <1>11 DEF Proceed

LEMMA StepRest ==
    ASSUME TypeOK, Rest, [Next]_vars
    PROVE  Rest'
PROOF
<1>1. ASSUME NEW d \in Devices, InitDevice(d), UNCHANGED strays
      PROVE  Rest'
  <2>1. /\ OthersSame(d)
        /\ at'[d] = "idle" /\ scan'[d] = None /\ given'[d] = {} /\ realtime'[d] = {}
        /\ UNCHANGED <<block, state, deleted>>
    BY <1>1, OneDeviceMoves DEF InitDevice, Goto, Forget, TypeOK, databaseVars
  <2> QED
    BY <1>1, <2>1, Settled
<1>2. ASSUME NEW b \in Blocks, Answer(b), UNCHANGED strays
      PROVE  Rest'
  <2>1. \A c \in Blocks : state'[c].exists = state[c].exists
    BY <1>2 DEF Answer, TypeOK, State
  <2> USE <1>2 DEF Answer, deviceVars, Rest
  <2>2. PhaseOK' /\ GivenOK' /\ AddressesOfScan'
    BY DEF PhaseOK, GivenOK, AddressesOfScan
  <2>3. ListsOK'
    BY <2>1 DEF ListsOK, InCharge
  <2>4. ScansOK'
    BY DEF ScansOK, Pending
  <2> QED
    BY <2>2, <2>3, <2>4
<1>3. ASSUME NEW b \in Blocks, UserDeletes(b), UNCHANGED strays
      PROVE  Rest'
  <2> USE <1>3 DEF UserDeletes, deviceVars, Rest
  <2>1. PhaseOK' /\ GivenOK' /\ AddressesOfScan'
    BY DEF PhaseOK, GivenOK, AddressesOfScan
  <2>2. \A c \in Blocks \ {b} : block'[c] = block[c] /\ state'[c] = state[c]
    BY DEF TypeOK
  <2>3. \A d \in Devices : realtime[d] \subseteq Blocks
    BY SubarrayAssumption DEF TypeOK
  <2>4. ListsOK'
    BY <2>2, <2>3 DEF ListsOK, InCharge
  <2>5. ScansOK'
    BY <2>2, <2>3 DEF ScansOK, Pending
  <2> QED
    BY <2>1, <2>4, <2>5
<1>4. CASE UNCHANGED vars
  BY <1>4 DEF vars, deviceVars, databaseVars, Rest, PhaseOK, GivenOK, ListsOK, ScansOK,
              AddressesOfScan, InCharge, Pending
<1> QED
  BY <1>1, <1>2, <1>3, <1>4, StepKinds, CommandRest, ProceedRest, WriteRest

-----------------------------------------------------------------------------
(* Who asks whom.  A step of a device that asks nobody new.                 *)
Waits == ReceiversOK /\ QuestionStands

LEMMA NobodyNewAsked ==
    ASSUME Waits, NEW d \in Devices, OthersSame(d), UNCHANGED <<state, deleted>>,
           Asked(d)' \subseteq Asked(d), at'[d] # "wait"
    PROVE  Waits'
PROOF
<1>1. \A e \in Devices \ {d} : Asked(e)' = Asked(e)
  BY DEF OthersSame, Asked
<1>2. ReceiversOK'
  BY <1>1 DEF Waits, ReceiversOK
<1>3. QuestionStands'
  BY DEF Waits, QuestionStands, OthersSame
<1> QED
  BY <1>2, <1>3 DEF Waits

LEMMA CommandWaits ==
    ASSUME TypeOK, Waits, NEW d \in Devices, Command(d) \/ InitDevice(d) \/ WriteObsState(d)
    PROVE  Waits'
PROOF
<1>0. OthersSame(d)
  BY OneDeviceMoves
<1>1. CASE Configure(d)
  <2> PICK c \in Configurations :
         /\ todo' = [todo EXCEPT ![d] = c.blocks]
         /\ link' = [link EXCEPT ![d] = c.receiver]
    BY <1>1 DEF Configure
  <2>1. c.receiver # None => c.receiver \in Range(c.blocks)
    BY SubarrayAssumption
  <2>2. /\ at'[d] = "create" /\ link'[d] = c.receiver /\ todo'[d] = c.blocks
        /\ UNCHANGED <<receiver, state, deleted>>
    BY <1>1 DEF Configure, Goto, TypeOK, databaseVars
  <2> QED
    BY <1>0, <2>1, <2>2, NobodyNewAsked DEF Asked
<1>2. CASE ~Configure(d)
  <2>1. /\ receiver'[d] \in {receiver[d], None} /\ at'[d] \notin {"create", "wait"}
        /\ UNCHANGED <<state, deleted>>
    BY <1>2 DEF Command, ConfigureScan, Scan, EndScan, EndSB, Refuse, InitDevice, WriteObsState,
                Goto, TypeOK, databaseVars
  <2> QED
    BY <1>0, <2>1, NobodyNewAsked DEF Asked
<1> QED
  BY <1>1, <1>2

(* The state of a block that is created was not there, so nobody waits for  *)
(* it, unless it had been deleted.                                          *)
LEMMA CreateWaits ==
    ASSUME TypeOK, PhaseOK, Waits, NEW d \in Devices, CreateBlock(d)
    PROVE  Waits'
PROOF
<1> DEFINE b == Head(todo[d])
<1>0. OthersSame(d) /\ at[d] = "create"
  BY OneDeviceMoves DEF Proceed, CreateBlock
<1>1. b \in Blocks /\ Range(todo[d]) = {b} \union Range(Tail(todo[d]))
  BY RangeOfRest DEF CreateBlock, TypeOK
<1>2. CASE ~MayCreate(b) /\ CommandRaises(d)
  <2>1. at'[d] = "idle" /\ UNCHANGED <<receiver, state, deleted>>
    BY <1>2 DEF CommandRaises, Goto, TypeOK, databaseVars
  <2> QED
    BY <1>0, <2>1, NobodyNewAsked DEF Asked
<1>3. CASE ~(~MayCreate(b) /\ CommandRaises(d))
  <2>1. /\ MayCreate(b)
        /\ todo'[d] = Tail(todo[d])
        /\ state' = [state EXCEPT ![b] = [NoState EXCEPT !.exists = TRUE]]
        /\ UNCHANGED <<at, link, receiver, scan, deleted>>
    BY <1>3 DEF CreateBlock, TypeOK
  <2>2. state'[b].exists /\ \A c \in Blocks \ {b} : state'[c] = state[c]
    BY <1>1, <2>1 DEF TypeOK, NoState
  <2>3. \A e \in Devices : b \in Asked(e) => b \in deleted
    BY <2>1 DEF MayCreate, Waits, ReceiversOK
  <2>4. /\ Asked(d)' \subseteq Asked(d) \union {b}
        /\ \A e \in Devices \ {d} : Asked(e)' = Asked(e)
    BY <1>0, <1>1, <2>1 DEF Asked, OthersSame
  <2>5. \A e \in Devices : Asked(e)' \subseteq Blocks
    <3>1. \A e \in Devices : Asked(e) \subseteq Blocks
      BY SubarrayAssumption DEF Asked, TypeOK
    <3> QED
      BY <1>1, <2>4, <3>1
  <2>6. ReceiversOK'
    <3>1. ASSUME NEW e \in Devices, NEW c \in Asked(e)' \ deleted
          PROVE  state'[c].exists
      BY <2>2, <2>4, <2>5 DEF Waits, ReceiversOK
    <3>2. ASSUME NEW e \in Devices, NEW f \in Devices, e # f
          PROVE  Asked(e)' \intersect Asked(f)' \subseteq deleted
      BY <2>3, <2>4, <3>2 DEF Waits, ReceiversOK
    <3> QED
      BY <2>1, <3>1, <3>2 DEF ReceiversOK
  <2>7. QuestionStands'
    <3> SUFFICES ASSUME NEW e \in Devices, at'[e] = "wait", receiver'[e] \notin deleted
                 PROVE  state'[receiver'[e]].exists /\ state'[receiver'[e]].map = scan'[e]
      BY <2>1 DEF QuestionStands
    <3>1. /\ at[e] = "wait" /\ UNCHANGED <<receiver, scan>>
      BY <2>1
    <3>2. state[receiver[e]].exists /\ state[receiver[e]].map = scan[e]
      BY <2>1, <3>1 DEF Waits, QuestionStands
    <3>3. receiver[e] \in Blocks \ {b}
      BY <2>1, <3>1, <3>2, SubarrayAssumption DEF TypeOK, PhaseOK, MayCreate
    <3> QED
      BY <2>2, <3>1, <3>2, <3>3
  <2> QED
    BY <2>6, <2>7 DEF Waits
<1> QED
  BY <1>2, <1>3

(* Nobody else asks the block that gets a new link map, unless it had been  *)
(* deleted.                                                                 *)
LEMMA PutWaits ==
    ASSUME TypeOK, PhaseOK, Waits, NEW d \in Devices, PutLinkMap(d), state[receiver[d]].exists
    PROVE  Waits'
PROOF
<1> DEFINE b == receiver[d]
<1>1. /\ OthersSame(d) /\ at[d] = "put" /\ b \in Blocks /\ b # None
  BY OneDeviceMoves, SubarrayAssumption DEF Proceed, PutLinkMap, PhaseOK, TypeOK
<1>2. /\ state' = [state EXCEPT ![b] = WithMap(d, b)]
      /\ at' = [at EXCEPT ![d] = "wait"]
      /\ UNCHANGED <<scan, todo, link, receiver, deleted>>
  BY DEF PutLinkMap, Goto
<1>3. /\ state'[b].exists /\ state'[b].map = scan[d]
      /\ \A c \in Blocks \ {b} : state'[c] = state[c]
  BY <1>1, <1>2 DEF WithMap, TypeOK, State
<1>4. \A e \in Devices : Asked(e)' = Asked(e)
  BY <1>1, <1>2 DEF Asked, OthersSame, TypeOK
<1>5. \A e \in Devices : Asked(e) \subseteq Blocks
  BY SubarrayAssumption DEF Asked, TypeOK
<1>6. ReceiversOK'
  BY <1>2, <1>3, <1>4, <1>5 DEF Waits, ReceiversOK
<1>7. QuestionStands'
  <2> SUFFICES ASSUME NEW e \in Devices, e # d, at'[e] = "wait", receiver[e] \notin deleted
               PROVE  state'[receiver[e]].exists /\ state'[receiver[e]].map = scan[e]
    BY <1>2, <1>3 DEF QuestionStands
  <2>1. at[e] = "wait" /\ state[receiver[e]].exists /\ state[receiver[e]].map = scan[e]
    BY <1>1 DEF OthersSame, Waits, QuestionStands
  <2>2. receiver[e] \in Blocks
    BY <2>1, SubarrayAssumption DEF PhaseOK, TypeOK
  <2>3. receiver[e] # b
    BY <1>1, <2>2, SubarrayAssumption DEF Waits, ReceiversOK, Asked
  <2> QED
    BY <1>3, <2>1, <2>2, <2>3
<1> QED
  BY <1>6, <1>7 DEF Waits

LEMMA ProceedWaits ==
    ASSUME TypeOK, PhaseOK, Waits, NEW d \in Devices, Proceed(d)
    PROVE  Waits'
PROOF
<1>0. OthersSame(d)
  BY OneDeviceMoves
<1>1. CASE CreateBlock(d)
  BY <1>1, CreateWaits
<1>2. CASE BlocksCreated(d)
  <2>1. /\ at[d] = "create" /\ at'[d] = "map" /\ Range(todo[d]) = {}
        /\ receiver'[d] = link[d] /\ UNCHANGED <<state, deleted>>
    BY <1>2 DEF BlocksCreated, Goto, TypeOK, Range, databaseVars
  <2> QED
    BY <1>0, <2>1, NobodyNewAsked DEF Asked
<1>3. CASE PutLinkMap(d) /\ state[receiver[d]].exists
  BY <1>3, PutWaits
<1>4. CASE ~CreateBlock(d) /\ ~BlocksCreated(d) /\ ~(PutLinkMap(d) /\ state[receiver[d]].exists)
  <2>1. /\ at'[d] \notin {"create", "wait"}
        /\ UNCHANGED <<receiver, state, deleted>>
    BY <1>4 DEF Proceed, SkipBlock, UpdateBlock, BlocksUpdated, NoAddresses, LinkMapRead,
                LinkMapFails, LinkMapUnreadable, PutLinkMap, TakeAddresses, CommandRaises,
                CommandSucceeds, Goto, TypeOK, databaseVars
  <2> QED
    BY <1>0, <2>1, NobodyNewAsked DEF Asked
<1> QED
  BY <1>1, <1>2, <1>3, <1>4

LEMMA StepWaits ==
    ASSUME TypeOK, PhaseOK, Waits, [Next]_vars
    PROVE  Waits'
PROOF
<1>1. ASSUME NEW b \in Blocks, Answer(b)
      PROVE  Waits'
  <2>1. \A c \in Blocks : state'[c].exists = state[c].exists /\ state'[c].map = state[c].map
    BY <1>1 DEF Answer, TypeOK, State
  <2>2. \A d \in Devices : Asked(d)' = Asked(d) /\ Asked(d) \subseteq Blocks
    BY <1>1, SubarrayAssumption DEF Answer, deviceVars, Asked, TypeOK
  <2>3. ReceiversOK'
    BY <1>1, <2>1, <2>2 DEF Answer, Waits, ReceiversOK
  <2>4. \A d \in Devices : at[d] = "wait" => receiver[d] \in Blocks
    BY SubarrayAssumption DEF PhaseOK, TypeOK
  <2>5. QuestionStands'
    BY <1>1, <2>1, <2>4 DEF Answer, deviceVars, Waits, QuestionStands
  <2> QED
    BY <2>3, <2>5 DEF Waits
<1>2. ASSUME NEW b \in Blocks, UserDeletes(b)
      PROVE  Waits'
  <2>1. deleted' = deleted \union {b} /\ \A c \in Blocks \ {b} : state'[c] = state[c]
    BY <1>2 DEF UserDeletes, TypeOK
  <2>2. \A d \in Devices : Asked(d)' = Asked(d) /\ Asked(d) \subseteq Blocks
    BY <1>2, SubarrayAssumption DEF UserDeletes, deviceVars, Asked, TypeOK
  <2>3. ReceiversOK'
    BY <2>1, <2>2 DEF Waits, ReceiversOK
  <2>4. \A d \in Devices : at[d] = "wait" => receiver[d] \in Blocks
    BY SubarrayAssumption DEF PhaseOK, TypeOK
  <2>5. QuestionStands'
    BY <1>2, <2>1, <2>4 DEF UserDeletes, deviceVars, Waits, QuestionStands
  <2> QED
    BY <2>3, <2>5 DEF Waits
<1>3. CASE UNCHANGED vars
  BY <1>3 DEF vars, deviceVars, databaseVars, Waits, ReceiversOK, Asked, QuestionStands
<1> QED
  BY <1>1, <1>2, <1>3, StepKinds, CommandWaits, ProceedWaits

-----------------------------------------------------------------------------
LEMMA InitIInv == ASSUME Init PROVE IInv
PROOF
<1>1. TypeOK
  <2>1. <<>> \in Seq(Blocks)
    OBVIOUS
  <2> QED
    BY <2>1 DEF Init, TypeOK, ObsStates, Block, State, NoBlock, NoState
<1>2. PhaseOK /\ GivenOK /\ ListsOK /\ ScansOK /\ AddressesOfScan
  BY DEF Init, PhaseOK, GivenOK, ListsOK, ScansOK, AddressesOfScan, NoBlock, NoState
<1>3. ReceiversOK /\ QuestionStands
  BY DEF Init, ReceiversOK, QuestionStands, Asked
<1> QED
  BY <1>1, <1>2, <1>3 DEF IInv

(* The inductive invariant: what the list of a device (_pb_realtime) and    *)
(* its receiver (_pb_receive_addresses) are worth, whatever operators write *)
(* to obsState.                                                             *)
THEOREM Invariant == Spec => []IInv
PROOF
<1>1. IInv /\ [Next]_vars => IInv'
  <2> SUFFICES ASSUME IInv, [Next]_vars
               PROVE  IInv'
    OBVIOUS
  <2>1. TypeOK /\ Rest /\ Waits /\ PhaseOK
    BY DEF IInv, Rest, Waits
  <2> QED
    BY <2>1, TypeStep, StepRest, StepWaits DEF IInv, Rest, Waits
<1> QED
  BY <1>1, InitIInv, PTL DEF Spec

(* All variables of devices and database keep their types.                  *)
THEOREM TypeCorrect == Spec => []TypeOK
PROOF
<1>1. IInv => TypeOK
  BY DEF IInv
<1> QED
  BY <1>1, Invariant, PTL

(* The receive addresses shown after a command that succeeded are those of  *)
(* its scan (_get_receive_addresses), or none.                              *)
THEOREM AddressesMatch == Spec => []AddressesOfScan
PROOF
<1>1. IInv => AddressesOfScan
  BY DEF IInv
<1> QED
  BY <1>1, Invariant, PTL

(* Configured devices share no real-time block (_pb_realtime), except       *)
(* blocks that users have deleted and those that a failed Configure had     *)
(* listed when an operator moved the device on (write_obsState).            *)
THEOREM NobodySharesBlocks == Spec => []BlocksAreOwn
PROOF
<1>1. IInv => BlocksAreOwn
  BY DEF IInv, ListsOK, BlocksAreOwn, Configured, InCharge
<1> QED
  BY <1>1, Invariant, PTL

(* After a successful Configure or ConfigureScan all its blocks have the    *)
(* parameters of the scan, and keep them until the next command             *)
(* (_create_processing_blocks and _update_scan_parameters), with the same   *)
(* exceptions.                                                              *)
THEOREM ScansArrive == Spec => []ScanReachesBlocks
PROOF
<1>1. IInv => ScanReachesBlocks
  <2> SUFFICES ASSUME IInv, NEW d \in Devices, at[d] = "idle",
                      NEW b \in given[d] \ (deleted \union strays)
               PROVE  block[b] = [exists |-> TRUE, scan |-> scan[d]]
    BY DEF ScanReachesBlocks
  <2>1. b \in realtime[d] /\ b \notin Pending(d)
    BY DEF IInv, GivenOK, Pending
  <2>2. block[b].exists /\ block[b].scan = scan[d]
    BY <2>1 DEF IInv, ListsOK, ScansOK
  <2>3. block[b] \in Block
    BY SubarrayAssumption DEF IInv, TypeOK
  <2> QED
    BY <2>2, <2>3 DEF Block
<1> QED
  BY <1>1, Invariant, PTL

(* While a device waits for addresses, nobody replaces its question: only a *)
(* user who deletes the block keeps an answer from ending the wait          *)
(* (_get_receive_addresses).                                                *)
THEOREM QuestionsStand == Spec => []QuestionStands
PROOF
<1>1. IInv => QuestionStands
  BY DEF IInv
<1> QED
  BY <1>1, Invariant, PTL
=============================================================================
