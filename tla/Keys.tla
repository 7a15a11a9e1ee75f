-------------------------------- MODULE Keys --------------------------------
(***************************************************************************)
(* The Keys module (keys.c): keys_get_event hands out one key event per    *)
(* call from a batch of raw events it read from the keypad, a static array *)
(* that outlives the device.  The client sleeps until the descriptor is    *)
(* readable, then calls until a call leaves its event pointer alone.       *)
(***************************************************************************)
EXTENDS Integers, Sequences, FiniteSetsExt

CONSTANTS
  KeyCodes,      (* the codes of the keys                                  *)
  CustomKeys,    (* those lookup_key gives a code of its own               *)
  MAX_EVENTS,    (* length of raw_events                                   *)
  QueueSize      (* the kernel's buffer: it holds one event less           *)

ASSUME BatchAssumption == MAX_EVENTS \in Nat \ {0}
ASSUME QueueAssumption == QueueSize \in Nat /\ QueueSize > 3
ASSUME KeysAssumption == CustomKeys \subseteq KeyCodes

VARIABLES
  device,        (* "closed", "open", or "mute": keypad_event_fd is -1     *)
  kernel,        (* the events to be read from keypad_event_fd             *)
  batch,         (* raw_events from event_iter to event_count; it is empty *)
                 (* exactly when event_iter is 0                           *)
  held,          (* current_event_ptr is not NULL                          *)
  client,        (* "asleep", or "reading" until a call brings no event    *)
  down,          (* the keys that are down                                 *)
  pressed,       (* history: the keys down according to the client         *)
  touched,       (* history: the keys that moved since the device was open,*)
                 (* but for those whose newest move the kernel has dropped *)
  told           (* history: the last report                               *)

vars == <<device, kernel, batch, held, client, down, pressed, touched, told>>

(* A raw event: a key with its value, 0 up, 1 down, 2 repeated; or SYN,    *)
(* which ends a frame.                                                     *)
SYN == <<>>
Raw(code, value) == <<[code |-> code, value |-> value]>>

Init ==
  /\ device = "closed" /\ kernel = <<>> /\ batch = <<>> /\ held = FALSE
  /\ client = "asleep" /\ down = {} /\ pressed = {} /\ touched = {}
  /\ told = <<>>

(* Mutant: a key that repeats is not pressed.                              *)
MReport(raw) ==
  [key            |-> raw[1].code,
   custom         |-> raw[1].code \in CustomKeys,
   is_press       |-> raw[1].value = 1,
   is_auto_repeat |-> raw[1].value > 1]

(* lookup_key and the two flags of keys_get_event.                         *)
Report(raw) ==
  [key            |-> raw[1].code,
   custom         |-> raw[1].code \in CustomKeys,
   is_press       |-> raw[1].value # 0,
   is_auto_repeat |-> raw[1].value > 1]

(* nyx_module_open succeeds whether or not the keypad can be opened.       *)
Open ==
  /\ device = "closed" /\ device' \in {"open", "mute"}
  /\ kernel' = <<>> /\ held' = FALSE
  /\ client' = "asleep" /\ pressed' = {} /\ touched' = {} /\ told' = <<>>
  /\ UNCHANGED <<batch, down>>

(* nyx_module_close frees the event it holds.  The descriptor stays open   *)
(* and is not read again; the batch stays, for the next device.            *)
Close ==
  /\ device # "closed" /\ device' = "closed"
  /\ kernel' = <<>> /\ held' = FALSE
  /\ client' = "asleep" /\ pressed' = {} /\ touched' = {} /\ told' = <<>>
  /\ UNCHANGED <<batch, down>>

(* Mutant: a call gives up at the first raw event that is no key.          *)
MReadable(events) == {i \in 1 .. Len(events) : i = 1 /\ events[i] # SYN}

(* The raw events that make a report: those of type EV_KEY.                *)
Readable(events) == {i \in 1 .. Len(events) : events[i] # SYN}

(* Mutant: event_iter is not kept between calls.                           *)
MRest(events, i) == <<>>

(* What is left of a batch after its i-th event.                           *)
Rest(events, i) == SubSeq(events, i + 1, Len(events))

(* Mutant: the read is given no bound.                                     *)
MReadBatch == kernel

(* read_input_event: poll with no wait, and one read.                      *)
ReadBatch == SubSeq(kernel, 1, Min({MAX_EVENTS, Len(kernel)}))

(* keys_get_event.  A new batch forgets the event held; a call that finds  *)
(* no key leaves one held.                                                 *)
GetEvent ==
  /\ device # "closed" /\ client = "reading"
  /\ LET events == IF batch = <<>> THEN ReadBatch ELSE batch
     IN  /\ IF batch = <<>> THEN kernel' = Rest(kernel, Len(events)) ELSE UNCHANGED kernel
         /\ IF Readable(events) = {}
            THEN /\ batch' = <<>> /\ held' = TRUE /\ client' = "asleep"
                 /\ UNCHANGED <<pressed, told>>
            ELSE LET i == Min(Readable(events))
                     r == Report(events[i])
                 IN  /\ batch' = Rest(events, i) /\ held' = FALSE
                     /\ told' = <<r>>
                     /\ pressed' = IF r.is_press THEN pressed \cup {r.key} ELSE pressed \ {r.key}
                     /\ UNCHANGED client
  /\ UNCHANGED <<device, down, touched>>

(* The client may call for any reason; it does when there is something to  *)
(* read.                                                                   *)
Wake ==
  /\ device # "closed" /\ client = "asleep" /\ client' = "reading"
  /\ UNCHANGED <<device, kernel, batch, held, down, pressed, touched, told>>

(* An event that would fill the kernel's buffer drops all others and leaves*)
(* a SYN_DROPPED before itself, which is no key to keys_get_event.         *)
Push(events, raw) ==
  IF Len(events) + 1 = QueueSize THEN <<SYN, raw>> ELSE Append(events, raw)

Codes(events) == {events[i][1].code : i \in Readable(events)}

(* A key goes down, is repeated, or comes up: a frame of two raw events.   *)
Key(code) ==
  \E value \in IF code \in down THEN {0, 2} ELSE {1} :
    /\ down' = IF value = 0 THEN down \ {code} ELSE down \cup {code}
    /\ IF device = "open"
       THEN /\ kernel' = Push(Push(kernel, Raw(code, value)), SYN)
            /\ touched' = (touched \cup {code})
                           \ ((Codes(kernel) \cup {code}) \ Codes(kernel'))
       ELSE UNCHANGED <<kernel, touched>>
    /\ UNCHANGED <<device, batch, held, client, pressed, told>>

Next == Open \/ Close \/ GetEvent \/ Wake \/ \E code \in KeyCodes : Key(code)

(* The client keeps calling while it gets events, and wakes when the       *)
(* descriptor is readable.                                                 *)
Spec ==
  /\ Init /\ [][Next]_vars
  /\ WF_vars(GetEvent) /\ WF_vars(kernel # <<>> /\ Wake)

-----------------------------------------------------------------------------
Raws    == {SYN} \cup {Raw(code, value) : code \in KeyCodes, value \in 0 .. 2}
Reports == [key : KeyCodes, custom : BOOLEAN, is_press : BOOLEAN, is_auto_repeat : BOOLEAN]

(* The shapes of the state; no event is held while a batch is half read.   *)
TypeOK ==
  /\ device \in {"closed", "open", "mute"} /\ client \in {"asleep", "reading"}
  /\ kernel \in Seq(Raws) /\ batch \in Seq(Raws)
  /\ Len(kernel) < QueueSize /\ Len(batch) < MAX_EVENTS
  /\ held \in BOOLEAN
  /\ down \subseteq KeyCodes /\ pressed \subseteq KeyCodes /\ touched \subseteq KeyCodes
  /\ told = <<>> \/ told[1] \in Reports
  /\ batch # <<>> => ~held

(* When everything is read, the client is right about every key that moved *)
(* since it opened the device, whatever an earlier one left in the batch   *)
(* and whatever the kernel has dropped, except the key's newest move.      *)
HeldKeysAgree ==
  batch = <<>> /\ kernel = <<>> /\ device = "open" =>
    \A code \in touched : code \in pressed <=> code \in down

(* Key events reach the client each once and in order, across batches and  *)
(* over closes; none is lost but when the kernel's buffer is full.         *)
ReportsOf(events) ==
  LET upto[n \in 0 .. Len(events)] ==
        IF n = 0 THEN <<>>
        ELSE IF events[n] = SYN THEN upto[n - 1]
             ELSE Append(upto[n - 1], Report(events[n]))
  IN  upto[Len(events)]
Queue == INSTANCE KeyQueue WITH waiting <- ReportsOf(batch \o kernel),
                                Room    <- (QueueSize - 3) \div 2
ImplementsQueue == Queue!Spec

(* A key that stays down comes to be known to be down, although a call may *)
(* bring no event with some still to be read.                              *)
PressSeen ==
  \A code \in KeyCodes :
    <>[](device = "open" /\ code \in down \cap touched) => []<>(code \in pressed)
=============================================================================
