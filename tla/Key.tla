-------------------------------- MODULE Key --------------------------------
(***************************************************************************)
(* The key driver (app/user/key.c): a GPIO interrupt, a 2 s timer that       *)
(* tells a long press and a 50 ms timer that debounces the release.  The     *)
(* interrupt is armed for one edge at a time and switched off while the key  *)
(* is debounced, so an edge at the wrong moment is never seen.               *)
(*                                                                         *)
(* Time passes in ticks.  The key may bounce, and time pass, while an        *)
(* interrupt is pending or a callback is half way; late says when they did.  *)
(***************************************************************************)
EXTENDS Integers

CONSTANTS
    T2S,     \* ticks of the long-press timer (2000 ms)
    T50      \* ticks of the debounce timer (50 ms)

ASSUME KeyAssumption ==
    /\ T50 \in Nat \ {0} /\ T2S \in Nat /\ T50 < T2S

Off == -1   \* a timer that is not armed; 0 is a timer that is due

VARIABLES
    pin,        \* external: 0 while the key is down
    intr,       \* the edge the GPIO interrupt is armed for
    status,     \* the GPIO status bit: an interrupt is pending
    key_level, key_5s, key_50ms,
    debouncing, \* key_50ms_cb has read the pin and not armed the interrupt yet
    event,      \* the handler the last step called
    high, held, \* history: ticks the key has been up; ticks since it was last
                \*   up for longer than the debounce time
    fell,       \* history: the handlers no falling edge has been used for yet
    late        \* history: has the driver fallen behind the key in this press?

driver == <<intr, status, key_level, key_5s, key_50ms, debouncing>>
vars == <<pin, driver, event, high, held, fell, late>>

\* Every variable has its type; a timer never runs longer than its period.
TypeOK ==
    /\ pin \in {0, 1}
    /\ intr \in {"NEGEDGE", "POSEDGE", "DISABLE"}
    /\ status \in BOOLEAN
    /\ key_level \in {0, 1}
    /\ key_5s \in Off..T2S
    /\ key_50ms \in Off..T50
    /\ debouncing \in BOOLEAN
    /\ event \in {"none", "short_press", "long_press"}
    /\ high \in 0..(T50 + 1)
    /\ held \in 0..T2S
    /\ fell \subseteq {"short_press", "long_press"}
    /\ late \in BOOLEAN

\* key_init, with the key up.
Init ==
    /\ pin = 1
    /\ intr = "NEGEDGE" /\ status = FALSE
    /\ key_level = 1
    /\ key_5s = Off /\ key_50ms = Off
    /\ debouncing = FALSE
    /\ event = "none"
    /\ high = T50 + 1 /\ held = 0
    /\ fell = {} /\ late = FALSE

Quiet == event' = "none" /\ UNCHANGED <<pin, high, held, fell, late>>

\* An edge sets the status bit if the interrupt is armed for it.
Busy == status \/ debouncing
Move ==
    /\ pin' = 1 - pin
    /\ status' = (status \/ (intr = "NEGEDGE" /\ pin = 1) \/ (intr = "POSEDGE" /\ pin = 0))
    /\ fell' = IF pin = 1 THEN {"short_press", "long_press"} ELSE fell
    /\ high' = 0 /\ late' = (late \/ Busy)
    /\ event' = "none"
    /\ UNCHANGED <<intr, key_level, key_5s, key_50ms, debouncing, held>>

\* Mutant: the debounce timer gets the period of a long press.
key_intr_handler_Long ==
    /\ status /\ ~debouncing
    /\ status' = FALSE
    /\ IF key_level = 1
       THEN key_5s' = T2S /\ key_level' = 0 /\ intr' = "POSEDGE" /\ UNCHANGED key_50ms
       ELSE key_50ms' = T2S /\ intr' = "DISABLE" /\ UNCHANGED <<key_5s, key_level>>
    /\ UNCHANGED debouncing /\ Quiet
key_intr_handler ==
    /\ status /\ ~debouncing
    /\ status' = FALSE
    /\ IF key_level = 1
       THEN key_5s' = T2S /\ key_level' = 0 /\ intr' = "POSEDGE" /\ UNCHANGED key_50ms
       ELSE key_50ms' = T50 /\ intr' = "DISABLE" /\ UNCHANGED <<key_5s, key_level>>
    /\ UNCHANGED debouncing /\ Quiet

Calls(h) == event' = h /\ fell' = fell \ {h} /\ UNCHANGED <<pin, high, held>>

\* key_5s_cb.  Mutant: the timer repeats.
key_5s_cb_Repeats ==
    /\ key_5s = 0
    /\ key_5s' = T2S
    /\ IF pin = 0 THEN Calls("long_press") /\ UNCHANGED late ELSE Quiet
    /\ UNCHANGED <<intr, status, key_level, key_50ms, debouncing>>
key_5s_cb ==
    /\ key_5s = 0
    /\ key_5s' = Off
    /\ IF pin = 0 THEN Calls("long_press") /\ UNCHANGED late ELSE Quiet
    /\ UNCHANGED <<intr, status, key_level, key_50ms, debouncing>>

\* key_50ms_cb reads the pin: the key is up ...  Mutant: the long-press timer
\* goes on.
KeyUp_Long ==
    /\ key_50ms = 0 /\ ~debouncing /\ pin = 1
    /\ key_50ms' = Off
    /\ key_level' = 1
    /\ debouncing' = TRUE
    /\ UNCHANGED <<intr, status, key_5s>> /\ Quiet
KeyUp ==
    /\ key_50ms = 0 /\ ~debouncing /\ pin = 1
    /\ key_50ms' = Off
    /\ key_5s' = Off
    /\ key_level' = 1
    /\ debouncing' = TRUE
    /\ UNCHANGED <<intr, status>> /\ Quiet

\* ... and the interrupt is armed for the next press, and the handler called.
ArmFalling ==
    /\ debouncing /\ key_level = 1
    /\ debouncing' = FALSE
    /\ intr' = "NEGEDGE"
    /\ Calls("short_press") /\ late' = FALSE
    /\ UNCHANGED <<status, key_level, key_5s, key_50ms>>

\* Or it is down after all ...
StillDown ==
    /\ key_50ms = 0 /\ ~debouncing /\ pin = 0
    /\ key_50ms' = Off
    /\ debouncing' = TRUE
    /\ UNCHANGED <<intr, status, key_level, key_5s>> /\ Quiet

\* ... and the interrupt is armed for the release.  Mutant: it is not.
ArmAgain_Not ==
    /\ debouncing /\ key_level = 0
    /\ debouncing' = FALSE
    /\ UNCHANGED <<intr, status, key_level, key_5s, key_50ms>> /\ Quiet
ArmAgain ==
    /\ debouncing /\ key_level = 0
    /\ debouncing' = FALSE
    /\ intr' = "POSEDGE"
    /\ UNCHANGED <<status, key_level, key_5s, key_50ms>> /\ Quiet

\* Time passes once the timers that are due have been served.
Down(t) == IF t = Off THEN Off ELSE t - 1
Tick ==
    /\ key_5s # 0 /\ key_50ms # 0
    /\ key_5s' = Down(key_5s) /\ key_50ms' = Down(key_50ms)
    /\ high' = IF pin = 0 THEN 0 ELSE IF high <= T50 THEN high + 1 ELSE high
    /\ held' = IF high' > T50 THEN 0 ELSE IF held < T2S THEN held + 1 ELSE held
    /\ event' = "none" /\ late' = (late \/ Busy)
    /\ UNCHANGED <<pin, intr, status, key_level, debouncing, fell>>

Next ==
    \/ Move \/ key_intr_handler \/ key_5s_cb
    \/ KeyUp \/ ArmFalling \/ StillDown \/ ArmAgain
    \/ Tick

Spec == Init /\ [][Next]_vars

-----------------------------------------------------------------------------
\* The driver never goes deaf: while the interrupt is off, the debounce timer
\* is going to switch it on again.
InterruptComesBack == intr = "DISABLE" => key_50ms # Off \/ debouncing

\* No phantom presses: every call of a handler has a falling edge of its own
\* behind it, whatever bounces and delays.
NoPhantomPress ==
    [][event' # "none" => event' \in fell]_vars

\* A long press has been held: in the 2 s before it the key was never up for
\* longer than the debounce time, however it bounced and whatever the presses
\* before were, unless the driver fell behind the key in this very press.
LongPressWasHeld == event = "long_press" /\ ~late => held >= T2S

=============================================================================
