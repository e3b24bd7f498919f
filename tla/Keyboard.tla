------------------------------ MODULE Keyboard ------------------------------
(***************************************************************************)
(* The keys of the user reach the guest through a console program, as a    *)
(* scan code when a key goes down and another when it goes up.  What the   *)
(* guest holds down must come up again: when the user lets go, and when    *)
(* the window loses the keyboard and will not be told.  Three programs do  *)
(* this, each in its own way: colinux-console-nt, colinux-console-fltk on  *)
(* Windows and colinux-console-fltk on X11.                                *)
(***************************************************************************)
EXTENDS Integers, FiniteSets

CONSTANTS MaxDown          \* bound: keys down or held at once
MaxDownNat == MaxDown \in Nat

VARIABLES
    program,               \* which of the three
    altgr,                 \* the layout has AltGr: Windows adds a left Control to it
    keys,                  \* the program's record of the keys, and what it told the guest
    down,                  \* the keys that are down
    focused,
    twins,                 \* two keys with one virtual key were down, or held, at once
    missed                 \* a key went up and the program was not told

keyVars == <<program, altgr, keys, down, focused, twins, missed>>

Keys == {"lctrl", "rctrl", "lalt", "ralt", "lshift", "rshift", "lwin", "rwin", "del", "v", "tab"}
NoKey == "none"

\* Left and right have a scan code of their own, but one virtual key.
Vkey(k) == CASE k \in {"lctrl", "rctrl"} -> "control"
             [] k \in {"lalt", "ralt"} -> "menu"
             [] k \in {"lshift", "rshift"} -> "shift"
             [] OTHER -> k

Slots == Keys \union {Vkey(k) : k \in Keys} \union {NoKey}

Init ==
    /\ program \in {"nt", "fltk", "x11"} /\ altgr \in BOOLEAN
    /\ keys = [state |-> [v \in Slots |-> NoKey], win |-> FALSE, held |-> {}, attached |-> TRUE]
    /\ down = {} /\ focused = TRUE /\ twins = FALSE /\ missed = FALSE
-----------------------------------------------------------------------------
(* handle_scancode and the messages it sends, while attached.              *)

Press(s, k)   == IF s.attached /\ k # NoKey THEN [s EXCEPT !.held = @ \union {k}] ELSE s
Release(s, k) == IF s.attached THEN [s EXCEPT !.held = @ \ {k}] ELSE s
Forget(s, v)  == [s EXCEPT !.state[v] = NoKey]

\* Normal key processing: an up that was not recorded as down is not passed on.
Normal(s, k, v, released) ==
    IF ~released THEN Press([s EXCEPT !.state[v] = k], k)
    ELSE IF s.state[v] = NoKey THEN s
    ELSE Release(Forget(s, v), k)

\* Mutant of AltGr: the record keeps the Control that was released.
AltGr_Keep(s, k, released) ==
    IF k = "ralt" /\ ~released /\ s.state["control"] = "lctrl" THEN Release(s, "lctrl") ELSE s

\* AltGr comes as a left Control and a right Alt: the guest is to see the Alt alone.
AltGr(s, k, released) ==
    IF k = "ralt" /\ ~released /\ s.state["control"] = "lctrl"
      THEN Release(Forget(s, "control"), "lctrl") ELSE s

\* A Shift or Alt that is recorded but not down went up without an event.
Unstick(s, v, isDown) == IF isDown \/ s.state[v] = NoKey THEN s ELSE Release(Forget(s, v), s.state[v])

\* console_widget_NT_t::process_key_event, with the modifiers that are down.
NtEvent(s, k, released, mods) ==
    LET alt   == mods \intersect {"lalt", "ralt"} # {}
        ctrl  == mods \intersect {"lctrl", "rctrl"} # {}
        shift == mods \intersect {"lshift", "rshift"} # {}
        menu  == AltGr(s, k, released)
        win   == [s EXCEPT !.win = ~released]
        loose == IF released THEN s ELSE Unstick(Unstick(s, "menu", alt), "shift", shift)
    IN  CASE k \in {"lwin", "rwin"} ->
               IF ~released /\ "lalt" \in mods
                 THEN [Release(s, "lalt") EXCEPT !.attached = FALSE]
                 ELSE Normal(win, k, k, released)
          [] k = "del" -> IF ~released /\ alt /\ ctrl /\ shift THEN s ELSE Normal(s, k, k, released)
          [] k \in {"lalt", "ralt"} ->
               IF ~released /\ s.win
                 THEN [Release(menu, "lwin") EXCEPT !.attached = FALSE]
                 ELSE Normal(menu, k, "menu", released)
          [] k = "v" -> IF ~released /\ s.win THEN s ELSE Normal(s, k, k, released)
          [] OTHER -> Normal(loose, k, Vkey(k), released)

\* keyboard_hook: the Windows keys are not the guest's.
FltkEvent(s, k, released) ==
    CASE k \in {"lwin", "rwin"} -> [s EXCEPT !.win = ~released]
      [] k = "v" /\ ~released /\ s.win -> s
      [] OTHER -> Normal(AltGr(s, k, released), k, Vkey(k), released)

\* global_event_hook: by the key symbol; Shift makes Tab one that has no scan code.
X11Event(s, k, released, mods) ==
    LET scan == IF k = "tab" /\ mods \intersect {"lshift", "rshift"} # {} THEN NoKey ELSE k
    IN  IF ~released THEN Press([s EXCEPT !.state[scan] = scan], scan)
        ELSE IF s.state[scan] = NoKey THEN s
        ELSE Release(Forget(s, scan), scan)

Event(s, k, released, mods) ==
    CASE program = "nt"   -> NtEvent(s, k, released, mods)
      [] program = "fltk" -> FltkEvent(s, k, released)
      [] program = "x11"  -> X11Event(s, k, released, mods)

\* One virtual key, or the bit of the Windows keys.
Twin(i, j) == i # j /\ (Vkey(i) = Vkey(j) \/ {i, j} = {"lwin", "rwin"})

\* The fake Control of AltGr comes first.
With(pressed) == IF altgr /\ "ralt" \in pressed THEN pressed \union {"lctrl"} ELSE pressed

Events(k, released, mods) ==
    IF altgr /\ program # "x11" /\ k = "ralt"
      THEN Event(Event(keys, "lctrl", released, mods), k, released, mods)
      ELSE Event(keys, k, released, mods)
-----------------------------------------------------------------------------
Runs == keys.attached /\ ~twins

KeyDown(k) ==
    /\ Runs /\ k \notin down /\ Cardinality(down \union keys.held \union {k}) <= MaxDown
    /\ down' = down \union {k}
    /\ keys' = IF focused THEN Events(k, FALSE, With(down')) ELSE keys
    /\ twins' = \/ twins
                 \/ /\ program # "x11"
                    /\ \E i, j \in With(down') \union keys.held : Twin(i, j)
    /\ UNCHANGED <<program, altgr, focused, missed>>

KeyUp(k) ==
    /\ Runs /\ k \in down
    /\ down' = down \ {k}
    /\ keys' = IF focused THEN Events(k, TRUE, With(down')) ELSE keys
    /\ missed' = (missed \/ k \in keys'.held)
    /\ UNCHANGED <<program, altgr, focused, twins>>

\* Windows keeps the event for itself: the system menu, after Alt and Space.
Swallowed(k) ==
    /\ program = "nt" /\ Runs /\ focused
    /\ k \in down \intersect {"lalt", "lshift"}
    /\ down' = down \ {k} /\ missed' = (missed \/ k \in keys.held)
    /\ UNCHANGED <<program, altgr, keys, focused, twins>>

\* process_focus_event, co_user_console_keyboard_focus_change; nothing on X11.
Unfocus ==
    /\ Runs /\ focused
    /\ focused' = FALSE
    /\ keys' = IF program = "x11" THEN keys
               ELSE [keys EXCEPT !.held = @ \ {keys.state[v] : v \in Slots},
                                 !.state = [v \in Slots |-> NoKey], !.win = FALSE]
    /\ missed' = (program = "x11" /\ missed)
    /\ UNCHANGED <<program, altgr, down, twins>>

Focus == /\ Runs /\ ~focused
         /\ focused' = TRUE /\ UNCHANGED <<program, altgr, keys, down, twins, missed>>

Next == \/ \E k \in Keys : KeyDown(k) \/ KeyUp(k) \/ Swallowed(k)
        \/ Unfocus \/ Focus

Spec == Init /\ [][Next]_keyVars
-----------------------------------------------------------------------------
\* The guest holds what the program has recorded, so that nothing is left held when the
\* keyboard is lost, and nothing the user let go of; a console that detaches by Alt and the
\* Windows key leaves neither held.  Twins are excepted: the record has room for one of them.
KeysExact == ~twins =>
    /\ keys.attached => keys.held = {keys.state[v] : v \in Slots} \ {NoKey}
    /\ ~missed => keys.held \subseteq IF keys.attached THEN down ELSE down \ {"lalt", "lwin"}
=============================================================================
