---------------------------- MODULE Doppelganger ----------------------------
(***************************************************************************)
(* The validator client's doppelganger service                             *)
(* (validator_client/doppelganger_service): before a key may sign, a whole *)
(* epoch after its registration must pass in which the beacon node has     *)
(* seen no message of it.                                                  *)
(*                                                                         *)
(* One detection runs at a time.  It reads the keys to check, awaits the   *)
(* beacon node's answer for the previous epoch, awaits the answer for the  *)
(* current one, looks for violators in both and then updates the states.   *)
(* Registrations, restarts, the clock, the other client and the beacon     *)
(* node move freely in between.                                            *)
(***************************************************************************)
EXTENDS Integers

CONSTANTS
    Validators,     \* the voting public keys
    SlotsPerEpoch,
    MaxEpoch,       \* the last epoch of the run
    Unregistered    \* the state of a key the service does not know

ASSUME DoppelgangerAssumption ==
    /\ SlotsPerEpoch \in Nat \ {0}
    /\ MaxEpoch \in Nat
    /\ Unregistered \notin [next : Nat, remaining : Nat]

VARIABLES
    slot,       \* the slot clock
    states,     \* doppelganger_states
    indices,    \* keys whose validator index is known
    request,    \* the detection in flight
    shutdown,   \* shutdown_func was called since the client started
    detected,   \* history: the messages taken for a doppelganger's since the start
    registered, \* history: the epoch of a key's last registration
    cleared,    \* history: the epoch whose checks enabled a key, if any
    active,     \* messages of other clients: <<key, epoch>>
    own,        \* messages of this client: <<key, epoch>>
    seen        \* the messages the beacon node has seen

vars == <<slot, states, indices, request, shutdown, detected, registered,
          cleared, active, own, seen>>

Epoch == 0..MaxEpoch
EpochOf(s) == s \div SlotsPerEpoch
EndSlot(e) == (e + 1) * SlotsPerEpoch - 1
Previous(e) == IF e = 0 THEN 0 ELSE e - 1
Now == EpochOf(slot)

DefaultRemaining == 1           \* DEFAULT_REMAINING_DETECTION_EPOCHS
Forever == MaxEpoch + 3         \* u64::MAX: more than the run can count down
Never == 0 - 1

Idle == [pc |-> "idle", slot |-> 0, keys |-> {}, answered |-> {}, live |-> {},
         junk |-> FALSE, violators |-> FALSE]

TypeOK ==
    /\ slot \in 0..EndSlot(MaxEpoch)
    /\ states \in [Validators -> [next : 0..(MaxEpoch + 1), remaining : 0..Forever]
                                    \cup {Unregistered}]
    /\ indices \subseteq Validators
    /\ request \in [pc : {"idle", "previous", "current", "update"}, slot : 0..EndSlot(MaxEpoch),
                    keys : SUBSET Validators, answered : SUBSET Validators,
                    live : SUBSET Validators, junk : BOOLEAN, violators : BOOLEAN]
    /\ shutdown \in BOOLEAN
    /\ detected \subseteq Validators \X Epoch
    /\ registered \in [Validators -> Epoch \cup {Never}]
    /\ cleared \in [Validators -> Epoch \cup {Never}]
    /\ active \subseteq Validators \X Epoch
    /\ own \subseteq Validators \X Epoch
    /\ seen \subseteq active \cup own

Init ==
    /\ slot = 0
    /\ states = [v \in Validators |-> Unregistered]
    /\ indices = {}
    /\ request = Idle
    /\ shutdown = FALSE
    /\ detected = {}
    /\ registered = [v \in Validators |-> Never]
    /\ cleared = [v \in Validators |-> Never]
    /\ active = {}
    /\ own = {}
    /\ seen = {}

RequiresFurtherChecks(v) == states[v] # Unregistered /\ states[v].remaining > 0
SigningEnabled(v) == states[v] # Unregistered /\ states[v].remaining = 0

-----------------------------------------------------------------------------
(***************************************************************************)
(* register_new_validator: no protection in the genesis epoch, otherwise   *)
(* one epoch has to be checked, and none before the next one.  The state   *)
(* of a key that was registered before is overwritten.                     *)
(***************************************************************************)
NewState_ChecksCurrentEpoch(e) ==
    [next |-> e, remaining |-> IF e = 0 THEN 0 ELSE DefaultRemaining]

NewState(e) ==
    [next |-> e + 1, remaining |-> IF e = 0 THEN 0 ELSE DefaultRemaining]

Register(v) ==
    /\ states' = [states EXCEPT ![v] = NewState(Now)]
    /\ registered' = [registered EXCEPT ![v] = Now]
    /\ cleared' = [cleared EXCEPT ![v] = Never]
    /\ UNCHANGED <<slot, indices, request, shutdown, detected, active, own, seen>>

(***************************************************************************)
(* The client stops at any point and starts again, in the same or a later  *)
(* slot, with the keys it had: register_all_in_doppelganger_protection.    *)
(***************************************************************************)
Restart ==
    LET known == {v \in Validators : states[v] # Unregistered}
    IN  /\ known # {}
        /\ states' = [v \in Validators |-> IF v \in known THEN NewState(Now) ELSE states[v]]
        /\ registered' = [v \in Validators |-> IF v \in known THEN Now ELSE registered[v]]
        /\ cleared' = [v \in Validators |-> Never]
        /\ indices' = {}
        /\ request' = Idle
        /\ shutdown' = FALSE
        /\ detected' = {}
        /\ UNCHANGED <<slot, active, own, seen>>

(* set_validator_index, once the duties service has resolved the key. *)
SetValidatorIndex(v) ==
    /\ states[v] # Unregistered
    /\ indices' = indices \cup {v}
    /\ UNCHANGED <<slot, states, request, shutdown, detected, registered,
                   cleared, active, own, seen>>

-----------------------------------------------------------------------------
(***************************************************************************)
(* detect_doppelgangers, up to its first await, with the keys that         *)
(* compute_detection_indices_map finds.                                    *)
(***************************************************************************)
BeginDetection ==
    LET keys == {v \in indices : RequiresFurtherChecks(v)}
    IN  /\ request = Idle
        /\ keys # {}
        /\ request' = [Idle EXCEPT !.pc = "previous", !.slot = slot, !.keys = keys]
        /\ UNCHANGED <<slot, states, indices, shutdown, detected, registered,
                       cleared, active, own, seen>>

(***************************************************************************)
(* beacon_node_liveness.  A query that fails is an empty answer, and so is *)
(* the previous epoch's in the genesis epoch; a beacon node may leave keys *)
(* out, and the code also allows for an index it did not ask about (junk). *)
(***************************************************************************)
Live(keys, e) == {v \in keys : <<v, e>> \in seen}

AnswerPrevious ==
    LET e == EpochOf(request.slot)
    IN  /\ request.pc = "previous"
        /\ \E answered \in SUBSET request.keys, junk \in BOOLEAN :
              /\ e = 0 => answered = {} /\ ~junk
              /\ request' = [request EXCEPT !.pc = "current",
                                            !.answered = answered,
                                            !.live = Live(answered, Previous(e)),
                                            !.junk = junk]
        /\ UNCHANGED <<slot, states, indices, shutdown, detected, registered,
                       cleared, active, own, seen>>

(***************************************************************************)
(* process_liveness_responses, when the answer for the current epoch is    *)
(* in.  The first loop looks for violators in both answers.  The second    *)
(* goes through the previous epoch's answer only: it stops every key in it *)
(* for good if there is a violator, and otherwise completes the epoch for  *)
(* the keys that were not live in it.  An unknown index ends the routine   *)
(* wherever the second loop meets it.                                      *)
(*                                                                         *)
(* The lock on the states is taken anew for each key of each loop, so that *)
(* a key may be registered between the loops.  Each loop reads or writes   *)
(* one key at a time, so a registration during a loop is one before it or  *)
(* after it.                                                               *)
(***************************************************************************)
Violators(live, liveNow, e) ==
    {<<v, Previous(e)>> : v \in {u \in live : states[u].next <= Previous(e)}}
        \cup {<<v, e>> : v \in {u \in liveNow : states[u].next <= e}}

EpochIsSatisfied_NoWait(e) == TRUE

EpochIsSatisfied_AfterTheSlot(e) == request.slot > EndSlot(Previous(e) + 1)

EpochIsSatisfied(e) == request.slot >= EndSlot(Previous(e) + 1)

IsCompletedBy(v, e) ==
    /\ v \notin request.live
    /\ EpochIsSatisfied(e)
    /\ Previous(e) >= states[v].next

CompleteDetectionInEpoch(state, e) ==
    [next |-> e + 1,
     remaining |-> IF state.remaining = 0 THEN 0 ELSE state.remaining - 1]

FindViolators ==
    LET e == EpochOf(request.slot)
    IN  /\ request.pc = "current"
        /\ \E answered \in SUBSET request.keys :
           LET violators == Violators(request.live, Live(answered, e), e)
           IN  /\ request' = [request EXCEPT !.pc = "update", !.violators = violators # {}]
               /\ detected' = detected \cup violators
        /\ UNCHANGED <<slot, states, indices, shutdown, registered, cleared, active,
                       own, seen>>

UpdateStates ==
    LET e == EpochOf(request.slot)
    IN  /\ request.pc = "update"
        /\ \E loop \in SUBSET request.answered :
           LET completed == {v \in loop : ~request.violators /\ IsCompletedBy(v, e)}
               stopped == {v \in loop : request.violators}
           IN  /\ ~request.junk => loop = request.answered
               /\ states' = [v \in Validators |->
                     CASE v \in completed -> CompleteDetectionInEpoch(states[v], Previous(e))
                       [] v \in stopped -> [states[v] EXCEPT !.remaining = Forever]
                       [] OTHER -> states[v]]
               /\ cleared' = [v \in Validators |->
                     IF v \in completed /\ states[v].remaining = 1 THEN Previous(e) ELSE cleared[v]]
               /\ shutdown' = (shutdown \/ (request.violators /\ ~request.junk))
        /\ request' = Idle
        /\ UNCHANGED <<slot, indices, detected, registered, active, own, seen>>

-----------------------------------------------------------------------------
(***************************************************************************)
(* The environment.  A message of epoch e reaches the beacon node before   *)
(* the last slot of epoch e + 1: the assumption behind the satisfaction    *)
(* slot of the service.                                                    *)
(***************************************************************************)
Sign(v) ==
    /\ SigningEnabled(v)
    /\ own' = own \cup {<<v, Now>>}
    /\ UNCHANGED <<slot, states, indices, request, shutdown, detected, registered,
                   cleared, active, seen>>

OtherClientSigns(v) ==
    /\ active' = active \cup {<<v, Now>>}
    /\ UNCHANGED <<slot, states, indices, request, shutdown, detected, registered,
                   cleared, own, seen>>

BeaconNodeSees(message) ==
    /\ message \in active \cup own
    /\ seen' = seen \cup {message}
    /\ UNCHANGED <<slot, states, indices, request, shutdown, detected, registered,
                   cleared, active, own>>

Tick ==
    /\ slot < EndSlot(MaxEpoch)
    /\ slot' = slot + 1
    /\ \A message \in (active \cup own) \ seen : slot' < EndSlot(message[2] + 1)
    /\ UNCHANGED <<states, indices, request, shutdown, detected, registered,
                   cleared, active, own, seen>>

Next ==
    \/ \E v \in Validators :
          \/ Register(v)
          \/ SetValidatorIndex(v)
          \/ Sign(v)
          \/ OtherClientSigns(v)
    \/ Restart
    \/ BeginDetection
    \/ AnswerPrevious
    \/ FindViolators
    \/ UpdateStates
    \/ \E message \in Validators \X Epoch : BeaconNodeSees(message)
    \/ Tick

Spec == Init /\ [][Next]_vars

(***************************************************************************)
(* The service's loop runs a detection in every slot and each query ends;  *)
(* the duties service polls for indices; the clock runs and messages       *)
(* arrive.  A beacon node that is asked again and again answers in full    *)
(* every now and then.  The last slot of the run stands for the last slots *)
(* of all later epochs, so that a detection may be repeated in it.         *)
(***************************************************************************)
AnswerInFull == AnswerPrevious /\ request'.answered = request.keys /\ ~request'.junk

Fairness ==
    /\ WF_vars(BeginDetection \/ AnswerPrevious \/ FindViolators \/ UpdateStates)
    /\ SF_vars(AnswerInFull)
    /\ \A v \in Validators : WF_vars(SetValidatorIndex(v))
    /\ WF_vars(Tick \/ \E message \in Validators \X Epoch : BeaconNodeSees(message))

FairSpec == Spec /\ Fairness

-----------------------------------------------------------------------------
(***************************************************************************)
(* A key is never enabled on the strength of an epoch in which another     *)
(* client used it, although answers are read slots before they are         *)
(* processed and messages reach the beacon node late.                      *)
(***************************************************************************)
ClearedOnlyIfQuiet ==
    \A v \in Validators : cleared[v] # Never => <<v, cleared[v]>> \notin active

(***************************************************************************)
(* A key registered after the genesis epoch cannot sign before the last    *)
(* slot of the second epoch after its registration, even if it is          *)
(* registered again while a detection that covers it is in flight.         *)
(***************************************************************************)
WaitsForAFullEpoch ==
    \A v \in Validators :
        SigningEnabled(v) /\ registered[v] > 0 => slot >= EndSlot(registered[v] + 2)

(***************************************************************************)
(* The service never takes this client's own messages, from before a       *)
(* restart or a new registration, for those of a doppelganger.             *)
(***************************************************************************)
NoSelfDetection == detected \subseteq active

(***************************************************************************)
(* "If a single doppelganger is detected, enable doppelganger checks on    *)
(* all validators forever": once process_liveness_responses has run, no    *)
(* key may sign.                                                           *)
(***************************************************************************)
DetectionStopsAllValidators ==
    detected # {} /\ request = Idle => \A v \in Validators : ~SigningEnabled(v)

(***************************************************************************)
(* The service decides about every key: one that is registered early       *)
(* enough for the run, and not again in a later epoch, is enabled or a     *)
(* doppelganger is detected, whatever queries fail on the way.             *)
(***************************************************************************)
KeysAreDecided ==
    \A v \in Validators, e \in 1..(MaxEpoch - 2) :
        registered[v] = e ~> SigningEnabled(v) \/ detected # {} \/ registered[v] # e

=============================================================================
