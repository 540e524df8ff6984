-------------------------- MODULE DoppelgangerProofs --------------------------
(***************************************************************************)
(* Proofs about Doppelganger, for every number of keys, slots per epoch    *)
(* and epochs.                                                             *)
(***************************************************************************)
EXTENDS Doppelganger, TLAPS

-----------------------------------------------------------------------------
(***************************************************************************)
(* Arithmetic of slots and epochs.                                         *)
(***************************************************************************)

(* Multiplication by the length of an epoch is monotonic. *)
LEMMA TimesMonotonic ==
    ASSUME NEW a \in Int, NEW b \in Int, a <= b
    PROVE  /\ a * SlotsPerEpoch \in Int /\ b * SlotsPerEpoch \in Int
           /\ a * SlotsPerEpoch <= b * SlotsPerEpoch
BY DoppelgangerAssumption

(* A slot lies within its epoch. *)
LEMMA SlotInEpoch ==
    ASSUME NEW s \in Nat
    PROVE  /\ EpochOf(s) \in Nat
           /\ EpochOf(s) * SlotsPerEpoch <= s
           /\ s < (EpochOf(s) + 1) * SlotsPerEpoch
BY DoppelgangerAssumption DEF EpochOf

(* A later slot is in no earlier epoch. *)
LEMMA EpochMonotonic ==
    ASSUME NEW s \in Nat, NEW t \in Nat, s <= t
    PROVE  EpochOf(s) \in Nat /\ EpochOf(t) \in Nat /\ EpochOf(s) <= EpochOf(t)
<1> DEFINE x == EpochOf(s)
           y == EpochOf(t)
<1>1. x \in Nat /\ x * SlotsPerEpoch <= s
  BY SlotInEpoch
<1>2. y \in Nat /\ t < (y + 1) * SlotsPerEpoch
  BY SlotInEpoch
<1> HIDE DEF x, y
<1>3. ASSUME y < x PROVE FALSE
  <2>1. (y + 1) * SlotsPerEpoch <= x * SlotsPerEpoch
    BY <1>1, <1>2, <1>3, TimesMonotonic
  <2>2. (y + 1) * SlotsPerEpoch \in Int /\ x * SlotsPerEpoch \in Int
    BY <1>1, <1>2, DoppelgangerAssumption
  <2> QED
    BY <1>1, <1>2, <2>1, <2>2
<1> QED
  BY <1>1, <1>2, <1>3 DEF x, y

(* A later epoch ends no earlier. *)
LEMMA EndSlotMonotonic ==
    ASSUME NEW a \in Nat, NEW b \in Nat, a <= b
    PROVE  EndSlot(a) \in Nat /\ EndSlot(b) \in Nat /\ EndSlot(a) <= EndSlot(b)
<1>1. /\ (a + 1) * SlotsPerEpoch \in Int /\ (b + 1) * SlotsPerEpoch \in Int
      /\ (a + 1) * SlotsPerEpoch <= (b + 1) * SlotsPerEpoch
  BY TimesMonotonic
<1>2. 1 * SlotsPerEpoch <= (a + 1) * SlotsPerEpoch
  BY TimesMonotonic
<1> QED
  BY <1>1, <1>2, DoppelgangerAssumption DEF EndSlot

(* The epoch after that of a slot ends later. *)
LEMMA NextEpochEndsLater ==
    ASSUME NEW s \in Nat
    PROVE  s < EndSlot(EpochOf(s) + 1)
<1> DEFINE x == EpochOf(s)
<1>1. x \in Nat /\ s < (x + 1) * SlotsPerEpoch
  BY SlotInEpoch
<1> HIDE DEF x
<1>2. (x + 2) * SlotsPerEpoch = (x + 1) * SlotsPerEpoch + SlotsPerEpoch
      /\ (x + 1) * SlotsPerEpoch \in Int
  BY <1>1, DoppelgangerAssumption
<1>3. EndSlot(x + 1) = (x + 2) * SlotsPerEpoch - 1
  BY <1>1 DEF EndSlot
<1> QED
  BY <1>1, <1>2, <1>3, DoppelgangerAssumption DEF x

(* The slots of the run are in its epochs. *)
LEMMA SlotsAreInEpochs ==
    ASSUME NEW s \in 0..EndSlot(MaxEpoch)
    PROVE  s \in Nat /\ EpochOf(s) \in Epoch
<1>1. EndSlot(MaxEpoch) \in Nat /\ EndSlot(MaxEpoch) = (MaxEpoch + 1) * SlotsPerEpoch - 1
      /\ (MaxEpoch + 1) * SlotsPerEpoch \in Int
  BY EndSlotMonotonic, DoppelgangerAssumption DEF EndSlot
<1>2. s \in Nat /\ s < (MaxEpoch + 1) * SlotsPerEpoch
  BY <1>1
<1> DEFINE x == EpochOf(s)
<1>3. x \in Nat /\ x * SlotsPerEpoch <= s
  BY <1>2, SlotInEpoch
<1> HIDE DEF x
<1>4. ASSUME x > MaxEpoch PROVE FALSE
  <2>1. (MaxEpoch + 1) * SlotsPerEpoch <= x * SlotsPerEpoch /\ x * SlotsPerEpoch \in Int
    BY <1>3, <1>4, TimesMonotonic, DoppelgangerAssumption
  <2> QED
    BY <1>1, <1>2, <1>3, <2>1
<1> QED
  BY <1>2, <1>3, <1>4, DoppelgangerAssumption DEF x, Epoch

-----------------------------------------------------------------------------
(***************************************************************************)
(* The inductive invariant.                                                *)
(***************************************************************************)
Known(v) == states[v] # Unregistered

(* A key's checks start after the epoch of its registration, and what      *)
(* cleared it lies in the past.                                            *)
StatesInv ==
    \A v \in Validators :
        /\ registered[v] <= Now
        /\ Known(v) => /\ registered[v] # Never
                       /\ states[v].next > registered[v]
        /\ cleared[v] # Never => cleared[v] < Now

(* What the detection in flight has read is still true, although the keys  *)
(* may have been registered again and the clock moved on.                  *)
RequestInv ==
    LET e == EpochOf(request.slot)
    IN  /\ request.slot <= slot
        /\ request.live \subseteq request.answered
        /\ request.answered \subseteq request.keys
        /\ \A v \in request.keys : Known(v)
        /\ e = 0 => request.answered = {}
        /\ e > 0 => \A v \in request.keys : states[v].remaining > 0
        /\ \A v \in request.live : <<v, Previous(e)>> \in seen
        /\ EpochIsSatisfied(e) =>
               \A v \in request.answered \ request.live : <<v, Previous(e)>> \notin active

(* The beacon node sees every message in time, and a key that is being     *)
(* checked has signed nothing in the epochs that count.                    *)
MessagesInv ==
    /\ \A m \in active \cup own : m[2] <= Now
    /\ \A m \in (active \cup own) \ seen : slot < EndSlot(m[2] + 1)
    /\ \A m \in own : /\ Known(m[1])
                      /\ states[m[1]].remaining > 0 => m[2] < states[m[1]].next

Inv == /\ TypeOK /\ StatesInv /\ RequestInv /\ MessagesInv
       /\ ClearedOnlyIfQuiet /\ WaitsForAFullEpoch /\ NoSelfDetection

(* The epochs a step deals with. *)
LEMMA Clock ==
    ASSUME TypeOK, RequestInv
    PROVE  /\ slot \in Nat /\ request.slot \in Nat
           /\ Now \in Epoch /\ EpochOf(request.slot) \in Epoch
           /\ Now \in Nat /\ EpochOf(request.slot) \in Nat
           /\ EpochOf(request.slot) <= Now
           /\ Epoch \subseteq Nat
           /\ slot < EndSlot(Now + 1) /\ EndSlot(Now + 1) \in Nat
<1>1. slot \in 0..EndSlot(MaxEpoch) /\ request.slot \in 0..EndSlot(MaxEpoch)
  BY DEF TypeOK
<1>2. request.slot <= slot
  BY DEF RequestInv
<1>3. Epoch \subseteq Nat
  BY DoppelgangerAssumption DEF Epoch
<1>4. /\ slot \in Nat /\ EpochOf(slot) \in Epoch
      /\ request.slot \in Nat /\ EpochOf(request.slot) \in Epoch
  BY <1>1, SlotsAreInEpochs
<1>5. EpochOf(request.slot) <= EpochOf(slot)
  BY <1>2, <1>4, EpochMonotonic
<1>6. EpochOf(slot) + 1 \in Nat
  <2>1. \A x \in Nat : x + 1 \in Nat
    OBVIOUS
  <2> QED
    BY <1>3, <1>4, <2>1
<1>7. slot < EndSlot(EpochOf(slot) + 1) /\ EndSlot(EpochOf(slot) + 1) \in Nat
  BY <1>4, <1>6, NextEpochEndsLater, EndSlotMonotonic
<1> QED
  BY <1>3, <1>4, <1>5, <1>7 DEF Now

(* A client that has just started has no detection in flight. *)
LEMMA IdleIsSound ==
    ASSUME TypeOK', request' = Idle
    PROVE  RequestInv'
<1>1. 0 <= slot'
  BY DoppelgangerAssumption, EndSlotMonotonic DEF TypeOK
<1> QED
  BY <1>1 DEF RequestInv, Idle

LEMMA InvInit == Init => Inv
<1> SUFFICES ASSUME Init PROVE Inv
  OBVIOUS
<1>1. EndSlot(MaxEpoch) \in Nat
  BY DoppelgangerAssumption, EndSlotMonotonic
<1>2. 0 \in Nat /\ EpochOf(0) \in Nat
  BY EpochMonotonic
<1>3. TypeOK
  <2>1. 0 \in 0..EndSlot(MaxEpoch)
    BY <1>1
  <2>2. Idle \in [pc : {"idle", "previous", "current", "update"}, slot : 0..EndSlot(MaxEpoch),
                  keys : SUBSET Validators, answered : SUBSET Validators,
                  live : SUBSET Validators, junk : BOOLEAN, violators : BOOLEAN]
    BY <2>1 DEF Idle
  <2> QED
    BY <2>1, <2>2 DEF Init, TypeOK
<1>4. StatesInv
  <2>1. Now \in Nat
    BY <1>2 DEF Init, Now
  <2>2. Never <= Now
    BY <2>1 DEF Never
  <2>3. \A v \in Validators : /\ registered[v] = Never /\ cleared[v] = Never
                              /\ states[v] = Unregistered
    BY DEF Init
  <2> QED
    BY <2>2, <2>3 DEF StatesInv, Known
<1>5. RequestInv
  BY <1>1 DEF Init, RequestInv, Idle
<1>6. MessagesInv
  BY DEF Init, MessagesInv
<1>7. ClearedOnlyIfQuiet /\ WaitsForAFullEpoch /\ NoSelfDetection
  BY DEF Init, ClearedOnlyIfQuiet, WaitsForAFullEpoch, NoSelfDetection, SigningEnabled
<1> QED
  BY <1>3, <1>4, <1>5, <1>6, <1>7 DEF Inv

-----------------------------------------------------------------------------
(***************************************************************************)
(* The operations on the keys.                                             *)
(***************************************************************************)

(* A key registered now has its first check in the next epoch. *)
LEMMA NewStateSound ==
    ASSUME NEW e \in Epoch
    PROVE  /\ NewState(e) \in [next : 0..(MaxEpoch + 1), remaining : 0..Forever]
           /\ NewState(e) # Unregistered
           /\ NewState(e).next = e + 1
           /\ NewState(e).remaining = 0 <=> e = 0
           /\ NewState(e).remaining > 0 <=> e > 0
<1>1. e \in Nat /\ e <= MaxEpoch /\ MaxEpoch \in Nat
  BY DoppelgangerAssumption DEF Epoch
<1>2. /\ NewState(e) \in [next : 0..(MaxEpoch + 1), remaining : 0..Forever]
      /\ NewState(e) \in [next : Nat, remaining : Nat]
  BY <1>1 DEF NewState, Forever, DefaultRemaining
<1>3. NewState(e) # Unregistered
  BY <1>2, DoppelgangerAssumption
<1>4. NewState(e).next = e + 1 /\ NewState(e).remaining = IF e = 0 THEN 0 ELSE 1
  BY DEF NewState, DefaultRemaining
<1> QED
  BY <1>1, <1>2, <1>3, <1>4

LEMMA RegisterSound ==
    ASSUME Inv, NEW v \in Validators, Register(v)
    PROVE  Inv'
<1> USE DEF Known
<1>1. /\ Now \in Epoch /\ Now \in Nat /\ Epoch \subseteq Nat
      /\ EpochOf(request.slot) \in Nat /\ EpochOf(request.slot) <= Now
  BY Clock DEF Inv
<1>2. /\ NewState(Now) \in [next : 0..(MaxEpoch + 1), remaining : 0..Forever]
      /\ NewState(Now) # Unregistered
      /\ NewState(Now).next = Now + 1
      /\ NewState(Now).remaining = 0 <=> Now = 0
      /\ NewState(Now).remaining > 0 <=> Now > 0
  BY <1>1, NewStateSound
<1>3. /\ Now' = Now
      /\ \A u \in Validators :
            /\ states'[u] = IF u = v THEN NewState(Now) ELSE states[u]
            /\ registered'[u] = IF u = v THEN Now ELSE registered[u]
            /\ cleared'[u] = IF u = v THEN Never ELSE cleared[u]
      /\ UNCHANGED <<slot, request, detected, active, own, seen>>
  BY DEF Register, Inv, TypeOK, Now
<1>4. TypeOK'
  BY <1>1, <1>2 DEF Register, Inv, TypeOK
<1>5. StatesInv'
  BY <1>1, <1>2, <1>3 DEF Inv, StatesInv, TypeOK, Never
<1>6. RequestInv'
  <2>1. request.keys \subseteq Validators
    BY DEF Inv, TypeOK
  <2>2. EpochOf(request.slot) > 0 => Now > 0
    BY <1>1
  <2>3. \A u \in request.keys : /\ states'[u] # Unregistered
                                /\ EpochOf(request.slot) > 0 => states'[u].remaining > 0
    BY <1>2, <1>3, <2>1, <2>2 DEF Inv, RequestInv
  <2> QED
    BY <1>3, <2>3 DEF Inv, RequestInv, EpochIsSatisfied
<1>7. MessagesInv'
  <2>1. \A m \in own : m[1] \in Validators /\ m[2] \in Nat /\ m[2] <= Now
    BY <1>1 DEF Inv, TypeOK, MessagesInv
  <2>2. \A m \in own : m[2] < Now + 1
    BY <1>1, <2>1
  <2>3. \A m \in own : /\ states'[m[1]] # Unregistered
                       /\ states'[m[1]].remaining > 0 => m[2] < states'[m[1]].next
    BY <1>2, <1>3, <2>1, <2>2 DEF Inv, MessagesInv
  <2> QED
    BY <1>3, <2>3 DEF Inv, MessagesInv
<1>8. ClearedOnlyIfQuiet' /\ WaitsForAFullEpoch' /\ NoSelfDetection'
  BY <1>1, <1>2, <1>3 DEF Inv, ClearedOnlyIfQuiet, WaitsForAFullEpoch, NoSelfDetection, SigningEnabled
<1> QED
  BY <1>4, <1>5, <1>6, <1>7, <1>8 DEF Inv

LEMMA RestartSound ==
    ASSUME Inv, Restart
    PROVE  Inv'
<1> USE DEF Known
<1>1. Now \in Epoch /\ Now \in Nat /\ Epoch \subseteq Nat
  BY Clock DEF Inv
<1>2. /\ NewState(Now) \in [next : 0..(MaxEpoch + 1), remaining : 0..Forever]
      /\ NewState(Now) # Unregistered
      /\ NewState(Now).next = Now + 1
      /\ NewState(Now).remaining = 0 <=> Now = 0
  BY <1>1, NewStateSound
<1>3. /\ Now' = Now
      /\ \A v \in Validators :
            /\ states'[v] = IF states[v] # Unregistered THEN NewState(Now) ELSE states[v]
            /\ registered'[v] = IF states[v] # Unregistered THEN Now ELSE registered[v]
            /\ cleared'[v] = Never
      /\ detected' = {}
      /\ UNCHANGED <<slot, active, own, seen>>
  BY DEF Restart, Now
<1>4. TypeOK'
  <2>1. request' \in [pc : {"idle", "previous", "current", "update"}, slot : 0..EndSlot(MaxEpoch),
                      keys : SUBSET Validators, answered : SUBSET Validators,
                      live : SUBSET Validators, junk : BOOLEAN, violators : BOOLEAN]
    BY DoppelgangerAssumption, EndSlotMonotonic DEF Restart, Idle
  <2> QED
    BY <1>1, <1>2, <2>1 DEF Restart, Inv, TypeOK
<1>5. StatesInv'
  BY <1>1, <1>2, <1>3 DEF Inv, StatesInv, TypeOK, Never
<1>6. RequestInv'
  BY <1>4, IdleIsSound DEF Restart
<1>7. MessagesInv'
  <2>1. \A m \in own : m[1] \in Validators /\ m[2] \in Nat /\ m[2] <= Now
    BY <1>1 DEF Inv, TypeOK, MessagesInv
  <2>2. \A m \in own : m[2] < Now + 1
    BY <1>1, <2>1
  <2>3. \A m \in own : /\ states'[m[1]] # Unregistered
                       /\ m[2] < states'[m[1]].next
    BY <1>2, <1>3, <2>1, <2>2 DEF Inv, MessagesInv
  <2> QED
    BY <1>3, <2>3 DEF Inv, MessagesInv
<1>8. ClearedOnlyIfQuiet' /\ WaitsForAFullEpoch' /\ NoSelfDetection'
  BY <1>1, <1>2, <1>3 DEF Inv, ClearedOnlyIfQuiet, WaitsForAFullEpoch, NoSelfDetection, SigningEnabled
<1> QED
  BY <1>4, <1>5, <1>6, <1>7, <1>8 DEF Inv

-----------------------------------------------------------------------------
(***************************************************************************)
(* The detection.                                                          *)
(***************************************************************************)
LEMMA BeginDetectionSound ==
    ASSUME Inv, BeginDetection
    PROVE  Inv'
<1>1. slot \in Nat
  BY Clock DEF Inv
<1>2. PICK keys \in SUBSET indices :
        /\ \A v \in keys : states[v] # Unregistered /\ states[v].remaining > 0
        /\ request' = [Idle EXCEPT !.pc = "previous", !.slot = slot, !.keys = keys]
  BY DEF BeginDetection, RequiresFurtherChecks
<1>3. /\ request'.slot = slot /\ request'.keys = keys
      /\ request'.answered = {} /\ request'.live = {}
  BY <1>2 DEF Idle
<1>4. UNCHANGED <<slot, states, indices, shutdown, detected, registered,
                  cleared, active, own, seen>>
  BY DEF BeginDetection
<1>5. TypeOK'
  BY <1>2, <1>4 DEF Inv, TypeOK, Idle
<1>6. RequestInv'
  BY <1>1, <1>2, <1>3, <1>4 DEF RequestInv, Known
<1>7. StatesInv' /\ MessagesInv'
  BY <1>4 DEF Inv, StatesInv, MessagesInv, Known, Now
<1>8. ClearedOnlyIfQuiet' /\ WaitsForAFullEpoch' /\ NoSelfDetection'
  BY <1>4 DEF Inv, ClearedOnlyIfQuiet, WaitsForAFullEpoch, NoSelfDetection, SigningEnabled
<1> QED
  BY <1>5, <1>6, <1>7, <1>8 DEF Inv

(* Once the previous epoch is satisfied, a key that is not live in the     *)
(* answer has sent no message in it: the beacon node has seen them all.    *)
LEMMA AnswerPreviousSound ==
    ASSUME Inv, AnswerPrevious
    PROVE  Inv'
<1> DEFINE e == EpochOf(request.slot)
<1>1. PICK answered \in SUBSET request.keys, junk \in BOOLEAN :
        /\ e = 0 => answered = {}
        /\ request' = [request EXCEPT !.pc = "current", !.answered = answered,
                                      !.live = Live(answered, Previous(e)), !.junk = junk]
  BY DEF AnswerPrevious
<1>2. /\ request'.slot = request.slot /\ request'.keys = request.keys
      /\ request'.answered = answered /\ request'.live = Live(answered, Previous(e))
  BY <1>1 DEF Inv, TypeOK
<1>3. UNCHANGED <<slot, states, indices, shutdown, detected, registered,
                  cleared, active, own, seen>>
  BY DEF AnswerPrevious
<1>4. TypeOK'
  BY <1>1, <1>3 DEF Inv, TypeOK, Live
<1>5. RequestInv'
  <2>1. \A v \in answered : v \notin Live(answered, Previous(e)) => <<v, Previous(e)>> \notin seen
    BY DEF Live
  <2>2. ASSUME EpochIsSatisfied(e), NEW v \in answered, <<v, Previous(e)>> \notin seen
        PROVE  <<v, Previous(e)>> \notin active
    <3>1. /\ slot \in Nat /\ request.slot \in Nat /\ request.slot <= slot
          /\ e \in Nat
      BY Clock DEF Inv, RequestInv
    <3>2. Previous(e) \in Nat /\ Previous(e) + 1 \in Nat
      BY <3>1 DEF Previous
    <3>3. EndSlot(Previous(e) + 1) \in Nat
      BY <3>2, EndSlotMonotonic
    <3>4. ~(slot < EndSlot(Previous(e) + 1))
      BY <2>2, <3>1, <3>3 DEF EpochIsSatisfied
    <3>5. \A m \in active : m \notin seen => slot < EndSlot(m[2] + 1)
      BY DEF Inv, MessagesInv
    <3> QED
      BY <2>2, <3>4, <3>5
  <2>3. \A v \in Live(answered, Previous(e)) : v \in answered /\ <<v, Previous(e)>> \in seen
    BY DEF Live
  <2> HIDE DEF e
  <2>4. /\ request'.slot <= slot'
        /\ request'.live \subseteq request'.answered
        /\ request'.answered \subseteq request'.keys
        /\ \A v \in request'.keys : states'[v] # Unregistered
        /\ \A v \in request'.live : <<v, Previous(e)>> \in seen'
        /\ e = 0 => request'.answered = {}
        /\ e > 0 => \A v \in request'.keys : states'[v].remaining > 0
    BY <1>1, <1>2, <1>3, <2>3 DEF Inv, RequestInv, Known, e
  <2>5. request'.slot >= EndSlot(Previous(e) + 1) =>
            \A v \in request'.answered \ request'.live : <<v, Previous(e)>> \notin active'
    BY <1>2, <1>3, <2>1, <2>2 DEF EpochIsSatisfied
  <2>6. e = EpochOf(request'.slot)
    BY <1>2 DEF e
  <2> QED
    BY <2>4, <2>5, <2>6 DEF RequestInv, Known, EpochIsSatisfied
<1>6. StatesInv' /\ MessagesInv'
  BY <1>3 DEF Inv, StatesInv, MessagesInv, Known, Now
<1>7. ClearedOnlyIfQuiet' /\ WaitsForAFullEpoch' /\ NoSelfDetection'
  BY <1>3 DEF Inv, ClearedOnlyIfQuiet, WaitsForAFullEpoch, NoSelfDetection, SigningEnabled
<1> QED
  BY <1>4, <1>5, <1>6, <1>7 DEF Inv

(* A key that is being checked has signed in no epoch that counts, so that *)
(* what the answers show is another client's.                              *)
LEMMA FindViolatorsSound ==
    ASSUME Inv, FindViolators
    PROVE  Inv'
<1> DEFINE e == EpochOf(request.slot)
<1>1. PICK answered \in SUBSET request.keys :
        LET violators == Violators(request.live, Live(answered, e), e)
        IN  /\ request' = [request EXCEPT !.pc = "update", !.violators = violators # {}]
            /\ detected' = detected \cup violators
  BY DEF FindViolators
<1> DEFINE violators == Violators(request.live, Live(answered, e), e)
<1>2. UNCHANGED <<slot, states, indices, shutdown, registered, cleared, active, own, seen>>
  BY DEF FindViolators
<1>3. /\ e \in Epoch /\ e \in Nat /\ Previous(e) \in Epoch /\ Previous(e) \in Nat
      /\ Epoch \subseteq Nat
  <2>1. e \in Epoch /\ e \in Nat /\ Epoch \subseteq Nat
    BY Clock DEF Inv
  <2> QED
    BY <2>1, DoppelgangerAssumption DEF Previous, Epoch
<1>4. \A v \in request.keys : /\ v \in Validators /\ states[v] # Unregistered
                              /\ states[v].next \in Nat /\ states[v].next > 0
  <2>1. ASSUME NEW v \in request.keys
        PROVE  /\ v \in Validators /\ states[v] # Unregistered
               /\ states[v].next \in Nat /\ registered[v] \in Nat
               /\ states[v].next > registered[v]
    <3>1. v \in Validators /\ states[v] # Unregistered
      BY DEF Inv, TypeOK, RequestInv, Known
    <3>2. states[v].next \in Nat
      BY <3>1, DoppelgangerAssumption DEF Inv, TypeOK
    <3>3. registered[v] \in Nat
      BY <1>3, <3>1 DEF Inv, TypeOK, StatesInv, Known
    <3> QED
      BY <3>1, <3>2, <3>3 DEF Inv, StatesInv, Known
  <2> QED
    BY <2>1
<1>5. violators \subseteq active
  <2>1. ASSUME NEW v \in request.live, states[v].next <= Previous(e)
        PROVE  <<v, Previous(e)>> \in active
    <3>1. v \in request.keys /\ e # 0 /\ <<v, Previous(e)>> \in active \cup own
      BY DEF Inv, TypeOK, RequestInv
    <3>2. states[v].remaining > 0
      BY <1>3, <3>1 DEF Inv, RequestInv
    <3>3. ASSUME <<v, Previous(e)>> \in own PROVE FALSE
      <4>1. Previous(e) < states[v].next
        BY <3>2, <3>3 DEF Inv, MessagesInv
      <4> QED
        BY <1>3, <1>4, <2>1, <3>1, <4>1
    <3> QED
      BY <3>1, <3>3
  <2>2. ASSUME NEW v \in Live(answered, e), states[v].next <= e
        PROVE  <<v, e>> \in active
    <3>1. v \in request.keys /\ <<v, e>> \in active \cup own
      BY DEF Inv, TypeOK, Live
    <3>2. e > 0
      BY <1>3, <1>4, <2>2, <3>1
    <3>3. states[v].remaining > 0
      BY <3>1, <3>2 DEF Inv, RequestInv
    <3>4. ASSUME <<v, e>> \in own PROVE FALSE
      <4>1. e < states[v].next
        BY <3>3, <3>4 DEF Inv, MessagesInv
      <4> QED
        BY <1>3, <1>4, <2>2, <3>1, <4>1
    <3> QED
      BY <3>1, <3>4
  <2> QED
    BY <2>1, <2>2 DEF Violators
<1>6. /\ request'.slot = request.slot /\ request'.keys = request.keys
      /\ request'.answered = request.answered /\ request'.live = request.live
  BY <1>1 DEF Inv, TypeOK
<1>7. detected' = detected \cup violators
  BY <1>1
<1> HIDE DEF violators, e
<1>8. TypeOK'
  <2>1. request' \in [pc : {"idle", "previous", "current", "update"}, slot : 0..EndSlot(MaxEpoch),
                      keys : SUBSET Validators, answered : SUBSET Validators,
                      live : SUBSET Validators, junk : BOOLEAN, violators : BOOLEAN]
    BY <1>1 DEF Inv, TypeOK
  <2> QED
    BY <1>2, <1>5, <1>7, <2>1 DEF Inv, TypeOK
<1>9. RequestInv'
  BY <1>2, <1>6 DEF Inv, RequestInv, Known, EpochIsSatisfied
<1>10. StatesInv' /\ MessagesInv'
  BY <1>2 DEF Inv, StatesInv, MessagesInv, Known, Now
<1>11. ClearedOnlyIfQuiet' /\ WaitsForAFullEpoch'
  BY <1>2 DEF Inv, ClearedOnlyIfQuiet, WaitsForAFullEpoch, SigningEnabled
<1>12. NoSelfDetection'
  BY <1>2, <1>5, <1>7 DEF Inv, NoSelfDetection
<1> QED
  BY <1>8, <1>9, <1>10, <1>11, <1>12 DEF Inv

(* What becomes of a key when a detection ends: nothing, one epoch less to *)
(* check, or a stop for good.                                              *)
Completes(v) ==
    LET e == EpochOf(request.slot)
    IN  /\ v \in request.answered /\ IsCompletedBy(v, e)
        /\ states'[v] = CompleteDetectionInEpoch(states[v], Previous(e))
        /\ cleared'[v] = IF states[v].remaining = 1 THEN Previous(e) ELSE cleared[v]

Stops(v) ==
    /\ v \in request.answered
    /\ states'[v] = [states[v] EXCEPT !.remaining = Forever]
    /\ cleared'[v] = cleared[v]

Stays(v) == states'[v] = states[v] /\ cleared'[v] = cleared[v]

LEMMA UpdateCases ==
    ASSUME Inv, UpdateStates, NEW v \in Validators
    PROVE  Completes(v) \/ Stops(v) \/ Stays(v)
<1> DEFINE e == EpochOf(request.slot)
<1>1. PICK loop \in SUBSET request.answered :
        LET completed == {u \in loop : ~request.violators /\ IsCompletedBy(u, e)}
            stopped == {u \in loop : request.violators}
        IN  /\ states' = [u \in Validators |->
                  CASE u \in completed -> CompleteDetectionInEpoch(states[u], Previous(e))
                    [] u \in stopped -> [states[u] EXCEPT !.remaining = Forever]
                    [] OTHER -> states[u]]
            /\ cleared' = [u \in Validators |->
                  IF u \in completed /\ states[u].remaining = 1 THEN Previous(e) ELSE cleared[u]]
  BY DEF UpdateStates
<1> DEFINE completed == {u \in loop : ~request.violators /\ IsCompletedBy(u, e)}
           stopped == {u \in loop : request.violators}
<1>2. /\ states'[v] = CASE v \in completed -> CompleteDetectionInEpoch(states[v], Previous(e))
                        [] v \in stopped -> [states[v] EXCEPT !.remaining = Forever]
                        [] OTHER -> states[v]
      /\ cleared'[v] = IF v \in completed /\ states[v].remaining = 1
                       THEN Previous(e) ELSE cleared[v]
  BY <1>1
<1>3. v \in completed => v \in request.answered /\ IsCompletedBy(v, e) /\ ~(v \in stopped)
  OBVIOUS
<1>4. v \in stopped => v \in request.answered /\ ~(v \in completed)
  OBVIOUS
<1> HIDE DEF completed, stopped
<1> QED
  BY <1>2, <1>3, <1>4 DEF Completes, Stops, Stays

(* A key whose epoch is completed: the epoch is a whole one after the      *)
(* registration, it is over, and no other client used the key in it.       *)
LEMMA CompletedEpoch ==
    ASSUME Inv, NEW v \in Validators, v \in request.answered,
           IsCompletedBy(v, EpochOf(request.slot))
    PROVE  LET p == Previous(EpochOf(request.slot))
           IN  /\ p \in Epoch /\ p \in Nat /\ p + 1 \in 0..(MaxEpoch + 1) /\ p < Now
               /\ states[v] \in [next : 0..(MaxEpoch + 1), remaining : 0..Forever]
               /\ states[v] # Unregistered
               /\ states[v].next \in Nat /\ states[v].remaining \in Nat
               /\ states[v].remaining > 0
               /\ registered[v] \in Nat /\ registered[v] < states[v].next
               /\ states[v].next <= p
               /\ <<v, p>> \notin active
               /\ slot >= EndSlot(registered[v] + 2)
<1> DEFINE e == EpochOf(request.slot)
           p == Previous(e)
<1>1. /\ slot \in Nat /\ request.slot \in Nat /\ Now \in Nat /\ e \in Epoch /\ e \in Nat
      /\ e <= Now /\ request.slot <= slot /\ Epoch \subseteq Nat
  BY Clock DEF Inv, RequestInv
<1>2. e # 0 /\ v \in request.keys /\ states[v] # Unregistered
  BY DEF Inv, RequestInv, Known
<1>3. p = e - 1
  BY <1>2 DEF Previous
<1>4. /\ v \notin request.live /\ EpochIsSatisfied(e) /\ p >= states[v].next
      /\ request.slot >= EndSlot(p + 1)
  BY DEF IsCompletedBy, EpochIsSatisfied
<1>5. states[v].remaining > 0 /\ <<v, p>> \notin active
  BY <1>1, <1>2, <1>4 DEF Inv, RequestInv
<1>6. states[v] \in [next : 0..(MaxEpoch + 1), remaining : 0..Forever]
  BY <1>2 DEF Inv, TypeOK
<1>7. states[v].next \in Nat /\ states[v].remaining \in Nat
  BY <1>6, DoppelgangerAssumption DEF Forever
<1>8. registered[v] \in Nat /\ registered[v] < states[v].next
  <2>1. registered[v] \in Nat
    BY <1>1, <1>2 DEF Inv, TypeOK, StatesInv, Known
  <2> QED
    BY <1>2, <1>7, <2>1 DEF Inv, StatesInv, Known
<1>9. e <= MaxEpoch /\ MaxEpoch \in Nat
  BY <1>1, DoppelgangerAssumption DEF Epoch
<1> HIDE DEF e, p
<1>10. p \in Nat /\ p + 1 \in Nat /\ p + 1 <= MaxEpoch /\ p < Now
  BY <1>1, <1>2, <1>3, <1>9
<1>11. p \in Epoch
  BY <1>9, <1>10 DEF Epoch
<1>12. slot >= EndSlot(registered[v] + 2)
  <2>1. registered[v] + 2 \in Nat /\ registered[v] + 2 <= p + 1
    BY <1>4, <1>7, <1>8, <1>10
  <2>2. /\ EndSlot(registered[v] + 2) \in Nat /\ EndSlot(p + 1) \in Nat
        /\ EndSlot(registered[v] + 2) <= EndSlot(p + 1)
    BY <1>10, <2>1, EndSlotMonotonic
  <2> QED
    BY <1>1, <1>4, <2>2
<1>13. p + 1 \in 0..(MaxEpoch + 1)
  BY <1>9, <1>10
<1>14. states[v].next <= p
  BY <1>4, <1>7, <1>10
<1> QED
  BY <1>2, <1>5, <1>6, <1>7, <1>8, <1>10, <1>11, <1>12, <1>13, <1>14 DEF e, p

(* What the end of a detection leaves of a key. *)
LEMMA UpdatedKey ==
    ASSUME Inv, UpdateStates, NEW v \in Validators
    PROVE  /\ states'[v] \in [next : 0..(MaxEpoch + 1), remaining : 0..Forever]
                                \cup {Unregistered}
           /\ cleared'[v] \in Epoch \cup {Never}
           /\ states[v] # Unregistered <=> states'[v] # Unregistered
           /\ states'[v] # Unregistered =>
                 registered[v] # Never /\ states'[v].next > registered[v]
           /\ cleared'[v] # Never => cleared'[v] < Now /\ <<v, cleared'[v]>> \notin active
           /\ states'[v] # Unregistered /\ states'[v].remaining > 0 =>
                 \A m \in own : m[1] = v => m[2] < states'[v].next
           /\ states'[v] # Unregistered /\ states'[v].remaining = 0 /\ registered[v] > 0 =>
                 slot >= EndSlot(registered[v] + 2)
<1>1. CASE Stays(v)
  BY <1>1 DEF Stays, Inv, TypeOK, StatesInv, Known, MessagesInv, ClearedOnlyIfQuiet,
              WaitsForAFullEpoch, SigningEnabled
<1>2. CASE Stops(v)
  <2>1. /\ states[v] # Unregistered /\ states[v].remaining > 0
    <3>1. EpochOf(request.slot) \in Nat /\ EpochOf(request.slot) # 0 /\ v \in request.keys
      BY <1>2, Clock DEF Stops, Inv, RequestInv
    <3> QED
      BY <3>1 DEF Inv, RequestInv, Known
  <2>2. states[v] \in [next : 0..(MaxEpoch + 1), remaining : 0..Forever]
    BY <2>1 DEF Inv, TypeOK
  <2>3. Forever \in Nat /\ Forever > 0 /\ MaxEpoch \in Nat
    BY DoppelgangerAssumption DEF Forever
  <2>4. /\ states'[v] \in [next : 0..(MaxEpoch + 1), remaining : 0..Forever]
        /\ states'[v] \in [next : Nat, remaining : Nat]
        /\ states'[v].next = states[v].next /\ states'[v].remaining = Forever
    BY <1>2, <2>2, <2>3 DEF Stops
  <2>5. states'[v] # Unregistered
    BY <2>4, DoppelgangerAssumption
  <2>6. \A m \in own : m[1] = v => m[2] < states'[v].next
    BY <2>1, <2>4 DEF Inv, MessagesInv
  <2>7. registered[v] # Never /\ states'[v].next > registered[v]
    BY <2>1, <2>4 DEF Inv, StatesInv, Known
  <2>8. /\ cleared'[v] \in Epoch \cup {Never}
        /\ cleared'[v] # Never => cleared'[v] < Now /\ <<v, cleared'[v]>> \notin active
    BY <1>2 DEF Stops, Inv, TypeOK, StatesInv, ClearedOnlyIfQuiet
  <2>9. states'[v].remaining # 0
    BY <2>3, <2>4
  <2> QED
    BY <2>1, <2>4, <2>5, <2>6, <2>7, <2>8, <2>9
<1>3. CASE Completes(v)
  <2> DEFINE p == Previous(EpochOf(request.slot))
  <2>1. /\ p \in Epoch /\ p \in Nat /\ p + 1 \in 0..(MaxEpoch + 1) /\ p < Now
        /\ states[v] # Unregistered
        /\ states[v] \in [next : 0..(MaxEpoch + 1), remaining : 0..Forever]
        /\ states[v].next \in Nat /\ states[v].remaining \in Nat
        /\ states[v].remaining > 0
        /\ registered[v] \in Nat /\ registered[v] < states[v].next
        /\ states[v].next <= p
        /\ <<v, p>> \notin active
        /\ slot >= EndSlot(registered[v] + 2)
    BY <1>3, CompletedEpoch DEF Completes
  <2>2. /\ states'[v] = CompleteDetectionInEpoch(states[v], p)
        /\ cleared'[v] = IF states[v].remaining = 1 THEN p ELSE cleared[v]
    BY <1>3 DEF Completes
  <2> HIDE DEF p
  <2>3. /\ states'[v] = [next |-> p + 1, remaining |-> states[v].remaining - 1]
    BY <2>1, <2>2 DEF CompleteDetectionInEpoch
  <2>4. Forever \in Nat /\ MaxEpoch \in Nat
    BY DoppelgangerAssumption DEF Forever
  <2>5. states[v].remaining - 1 \in 0..Forever
    BY <2>1, <2>4
  <2>6. /\ states'[v] \in [next : 0..(MaxEpoch + 1), remaining : 0..Forever]
        /\ states'[v] \in [next : Nat, remaining : Nat]
        /\ states'[v].next = p + 1
    BY <2>1, <2>3, <2>4, <2>5
  <2>7. states'[v] # Unregistered
    BY <2>6, DoppelgangerAssumption
  <2>8. \A m \in own : m[1] = v => m[2] < states'[v].next
    <3>1. \A m \in own : m[1] = v => m[2] < states[v].next
      BY <2>1 DEF Inv, MessagesInv
    <3>2. \A m \in own : m[2] \in Nat
      BY Clock DEF Inv, TypeOK
    <3> QED
      BY <2>1, <2>6, <3>1, <3>2
  <2>9. registered[v] # Never /\ states'[v].next > registered[v]
    BY <2>1, <2>6 DEF Never
  <2>10. /\ cleared'[v] \in Epoch \cup {Never}
         /\ cleared'[v] # Never => cleared'[v] < Now /\ <<v, cleared'[v]>> \notin active
    BY <2>1, <2>2 DEF Inv, TypeOK, StatesInv, ClearedOnlyIfQuiet
  <2> QED
    BY <2>1, <2>6, <2>7, <2>8, <2>9, <2>10
<1> QED
  BY <1>1, <1>2, <1>3, UpdateCases

LEMMA UpdateStatesSound ==
    ASSUME Inv, UpdateStates
    PROVE  Inv'
<1>1. /\ UNCHANGED <<slot, indices, detected, registered, active, own, seen>>
      /\ request' = Idle /\ shutdown' \in BOOLEAN /\ Now' = Now
  BY DEF UpdateStates, Inv, TypeOK, Now
<1>2. /\ states' = [v \in Validators |-> states'[v]]
      /\ cleared' = [v \in Validators |-> cleared'[v]]
  BY DEF UpdateStates
<1>3. TypeOK'
  <2>1. \A v \in Validators :
          /\ states'[v] \in [next : 0..(MaxEpoch + 1), remaining : 0..Forever]
                               \cup {Unregistered}
          /\ cleared'[v] \in Epoch \cup {Never}
    BY UpdatedKey
  <2>2. /\ states' \in [Validators -> [next : 0..(MaxEpoch + 1), remaining : 0..Forever]
                                         \cup {Unregistered}]
        /\ cleared' \in [Validators -> Epoch \cup {Never}]
    BY <1>2, <2>1
  <2>3. request' \in [pc : {"idle", "previous", "current", "update"}, slot : 0..EndSlot(MaxEpoch),
                      keys : SUBSET Validators, answered : SUBSET Validators,
                      live : SUBSET Validators, junk : BOOLEAN, violators : BOOLEAN]
    BY <1>1, DoppelgangerAssumption, EndSlotMonotonic DEF Idle
  <2> QED
    BY <1>1, <2>2, <2>3 DEF Inv, TypeOK
<1>4. RequestInv'
  BY <1>1, <1>3, IdleIsSound
<1>5. StatesInv'
  BY <1>1, UpdatedKey DEF Inv, StatesInv, Known
<1>6. MessagesInv'
  <2>1. \A m \in own : m[1] \in Validators /\ states[m[1]] # Unregistered
    BY DEF Inv, TypeOK, MessagesInv, Known
  <2>2. \A m \in own : /\ states'[m[1]] # Unregistered
                       /\ states'[m[1]].remaining > 0 => m[2] < states'[m[1]].next
    BY <2>1, UpdatedKey
  <2> QED
    BY <1>1, <2>2 DEF Inv, MessagesInv, Known
<1>7. ClearedOnlyIfQuiet' /\ WaitsForAFullEpoch'
  BY <1>1, UpdatedKey DEF ClearedOnlyIfQuiet, WaitsForAFullEpoch, SigningEnabled
<1>8. NoSelfDetection'
  BY <1>1 DEF Inv, NoSelfDetection
<1> QED
  BY <1>3, <1>4, <1>5, <1>6, <1>7, <1>8 DEF Inv

-----------------------------------------------------------------------------
(***************************************************************************)
(* The environment.                                                        *)
(***************************************************************************)
LEMMA SignSound ==
    ASSUME Inv, NEW v \in Validators, Sign(v)
    PROVE  Inv'
<1>1. /\ Now \in Epoch /\ Now \in Nat /\ slot < EndSlot(Now + 1)
  BY Clock DEF Inv
<1>2. /\ UNCHANGED <<slot, states, indices, request, shutdown, detected, registered,
                     cleared, active, seen>>
      /\ own' = own \cup {<<v, Now>>} /\ Now' = Now
      /\ states[v] # Unregistered /\ states[v].remaining = 0
  BY DEF Sign, SigningEnabled, Now
<1>3. TypeOK'
  BY <1>1, <1>2 DEF Inv, TypeOK
<1>4. MessagesInv'
  BY <1>1, <1>2 DEF Inv, MessagesInv, Known
<1>5. StatesInv' /\ RequestInv'
  BY <1>2 DEF Inv, StatesInv, RequestInv, Known, EpochIsSatisfied
<1>6. ClearedOnlyIfQuiet' /\ WaitsForAFullEpoch' /\ NoSelfDetection'
  BY <1>2 DEF Inv, ClearedOnlyIfQuiet, WaitsForAFullEpoch, NoSelfDetection, SigningEnabled
<1> QED
  BY <1>3, <1>4, <1>5, <1>6 DEF Inv

(* A new message is of the current epoch, past what any check has covered. *)
LEMMA OtherClientSignsSound ==
    ASSUME Inv, NEW v \in Validators, OtherClientSigns(v)
    PROVE  Inv'
<1> DEFINE e == EpochOf(request.slot)
<1>1. /\ Now \in Epoch /\ Now \in Nat /\ slot < EndSlot(Now + 1)
      /\ e \in Nat /\ e <= Now /\ Epoch \subseteq Nat
  BY Clock DEF Inv
<1>2. /\ UNCHANGED <<slot, states, indices, request, shutdown, detected, registered,
                     cleared, own, seen>>
      /\ active' = active \cup {<<v, Now>>} /\ Now' = Now
  BY DEF OtherClientSigns, Now
<1>3. TypeOK'
  BY <1>1, <1>2 DEF Inv, TypeOK
<1>4. MessagesInv'
  BY <1>1, <1>2 DEF Inv, MessagesInv, Known
<1>5. RequestInv'
  <2>1. e # 0 => Previous(e) # Now
    BY <1>1 DEF Previous
  <2>2. \A u \in request.answered : <<u, Previous(e)>> # <<v, Now>>
    BY <2>1 DEF Inv, RequestInv
  <2>3. EpochIsSatisfied(e) =>
            \A u \in request.answered \ request.live : <<u, Previous(e)>> \notin active'
    BY <1>2, <2>2 DEF Inv, RequestInv
  <2> QED
    BY <1>2, <2>3 DEF Inv, RequestInv, Known, EpochIsSatisfied
<1>6. ClearedOnlyIfQuiet'
  <2>1. \A u \in Validators : cleared[u] # Never => cleared[u] \in Nat /\ cleared[u] < Now
    BY <1>1 DEF Inv, TypeOK, StatesInv
  <2>2. \A u \in Validators : cleared[u] # Never => cleared[u] # Now
    BY <1>1, <2>1
  <2> QED
    BY <1>2, <2>2 DEF Inv, ClearedOnlyIfQuiet
<1>7. StatesInv' /\ WaitsForAFullEpoch' /\ NoSelfDetection'
  BY <1>2 DEF Inv, StatesInv, Known, WaitsForAFullEpoch, NoSelfDetection, SigningEnabled
<1> QED
  BY <1>3, <1>4, <1>5, <1>6, <1>7 DEF Inv

LEMMA TickSound ==
    ASSUME Inv, Tick
    PROVE  Inv'
<1>1. /\ slot \in Nat /\ request.slot \in Nat /\ Now \in Nat /\ Epoch \subseteq Nat
  BY Clock DEF Inv
<1>2. /\ UNCHANGED <<states, indices, request, shutdown, detected, registered,
                     cleared, active, own, seen>>
      /\ slot' = slot + 1 /\ slot' \in 0..EndSlot(MaxEpoch)
      /\ \A m \in (active \cup own) \ seen : slot' < EndSlot(m[2] + 1)
  BY <1>1, DoppelgangerAssumption, EndSlotMonotonic DEF Tick
<1>3. TypeOK'
  BY <1>2 DEF Inv, TypeOK
<1>4. Now' \in Nat /\ Now <= Now'
  BY <1>1, <1>2, EpochMonotonic DEF Now
<1>5. \A v \in Validators : registered[v] \in Int /\ cleared[v] \in Int
  <2>1. Never \in Int
    BY DEF Never
  <2>2. \A x \in Epoch \cup {Never} : x \in Int
    BY <1>1, <2>1
  <2> QED
    BY <2>2 DEF Inv, TypeOK
<1>6. StatesInv'
  <2>1. \A v \in Validators : registered[v] <= Now /\ (cleared[v] # Never => cleared[v] < Now)
    BY DEF Inv, StatesInv
  <2>2. \A v \in Validators : registered[v] <= Now' /\ (cleared[v] # Never => cleared[v] < Now')
    BY <1>1, <1>4, <1>5, <2>1
  <2> QED
    BY <1>2, <2>2 DEF Inv, StatesInv, Known
<1>7. RequestInv'
  <2>1. request.slot <= slot'
    BY <1>1, <1>2 DEF Inv, RequestInv
  <2> QED
    BY <1>2, <2>1 DEF Inv, RequestInv, Known, EpochIsSatisfied
<1>8. MessagesInv'
  <2>1. \A m \in active \cup own : m[2] \in Nat /\ m[2] <= Now
    BY <1>1 DEF Inv, TypeOK, MessagesInv
  <2>2. \A m \in active \cup own : m[2] <= Now'
    BY <1>1, <1>4, <2>1
  <2> QED
    BY <1>2, <2>2 DEF Inv, MessagesInv, Known
<1>9. WaitsForAFullEpoch'
  <2>1. \A v \in Validators : registered[v] > 0 => EndSlot(registered[v] + 2) \in Nat
    <3>1. \A v \in Validators : registered[v] > 0 => registered[v] + 2 \in Nat
      BY <1>5
    <3> QED
      BY <3>1, EndSlotMonotonic
  <2>2. \A n \in Nat : slot >= n => slot' >= n
    BY <1>1, <1>2
  <2> QED
    BY <1>2, <2>1, <2>2 DEF Inv, WaitsForAFullEpoch, SigningEnabled
<1>10. ClearedOnlyIfQuiet' /\ NoSelfDetection'
  BY <1>2 DEF Inv, ClearedOnlyIfQuiet, NoSelfDetection
<1> QED
  BY <1>3, <1>6, <1>7, <1>8, <1>9, <1>10 DEF Inv

LEMMA InvStep == Inv /\ [Next]_vars => Inv'
<1> SUFFICES ASSUME Inv, [Next]_vars PROVE Inv'
  OBVIOUS
<1>1. ASSUME NEW v \in Validators, SetValidatorIndex(v) PROVE Inv'
  BY <1>1 DEF SetValidatorIndex, Inv, TypeOK, StatesInv, RequestInv, MessagesInv, Known, Now,
              EpochIsSatisfied, ClearedOnlyIfQuiet, WaitsForAFullEpoch, NoSelfDetection,
              SigningEnabled
<1>2. ASSUME NEW m \in Validators \X Epoch, BeaconNodeSees(m) PROVE Inv'
  BY <1>2 DEF BeaconNodeSees, Inv, TypeOK, StatesInv, RequestInv, MessagesInv, Known, Now,
              EpochIsSatisfied, ClearedOnlyIfQuiet, WaitsForAFullEpoch, NoSelfDetection,
              SigningEnabled
<1>3. CASE UNCHANGED vars
  BY <1>3 DEF vars, Inv, TypeOK, StatesInv, RequestInv, MessagesInv, Known, Now,
              EpochIsSatisfied, ClearedOnlyIfQuiet, WaitsForAFullEpoch, NoSelfDetection,
              SigningEnabled
<1> QED
  BY <1>1, <1>2, <1>3, RegisterSound, RestartSound, BeginDetectionSound, AnswerPreviousSound,
     FindViolatorsSound, UpdateStatesSound, SignSound, OtherClientSignsSound, TickSound
     DEF Next

LEMMA InvHolds == Spec => []Inv
BY InvInit, InvStep, PTL DEF Spec

-----------------------------------------------------------------------------
(* The variables keep their types. *)
THEOREM TypeCorrect == Spec => []TypeOK
<1>1. Inv => TypeOK
  BY DEF Inv
<1> QED
  BY <1>1, InvHolds, PTL

(***************************************************************************)
(* No key is enabled on the strength of an epoch in which another client   *)
(* used it (process_liveness_responses).                                   *)
(***************************************************************************)
THEOREM QuietWhenCleared == Spec => []ClearedOnlyIfQuiet
<1>1. Inv => ClearedOnlyIfQuiet
  BY DEF Inv
<1> QED
  BY <1>1, InvHolds, PTL

(***************************************************************************)
(* No key registered after the genesis epoch signs before the last slot of *)
(* the second epoch after its registration (register_new_validator and     *)
(* process_liveness_responses).                                            *)
(***************************************************************************)
THEOREM FullEpochOfWaiting == Spec => []WaitsForAFullEpoch
<1>1. Inv => WaitsForAFullEpoch
  BY DEF Inv
<1> QED
  BY <1>1, InvHolds, PTL

(***************************************************************************)
(* The client's own messages are never taken for a doppelganger's,         *)
(* whatever restarts and registrations come between (next_check_epoch).    *)
(***************************************************************************)
THEOREM NeverDetectsItself == Spec => []NoSelfDetection
<1>1. Inv => NoSelfDetection
  BY DEF Inv
<1> QED
  BY <1>1, InvHolds, PTL

=============================================================================
