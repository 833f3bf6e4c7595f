------------------------------- MODULE OledBuffer -------------------------------
(***************************************************************************)
(* myoled_show of src/src/myoled.c: every handler clears the one display    *)
(* buffer, draws its text into it and sends it to the OLED, without a lock. *)
(* Module ReceiveInterface has a whole call as one step.                    *)
(***************************************************************************)
EXTENDS Naturals

CONSTANTS
    Handlers,     \* bound: the handlers of a behaviour, each calls it once
    Hello         \* the text of myoled_init

VARIABLES
    pc,         \* where each call is
    disp,       \* the display buffer, in two parts: the texts drawn in each
    panel,      \* what the OLED shows, likewise
    alone       \* history: the calls that no other has overlapped so far

vars == <<pc, disp, panel, alone>>

Parts == 1 .. 2     \* of a text: two handlers can draw in turns

Pictures == [Parts -> SUBSET (Handlers \cup {Hello})]
Blank    == [p \in Parts |-> {}]
Greeting == [p \in Parts |-> {Hello}]

TypeOK ==
    /\ pc \in [Handlers -> {"clear", "draw", "draw2", "send", "end"}]
    /\ disp \in Pictures
    /\ panel \in Pictures
    /\ alone \subseteq Handlers

Init ==
    /\ pc = [h \in Handlers |-> "clear"]
    /\ disp = Greeting
    /\ panel = Greeting
    /\ alone = {}

At(h, loc)   == pc[h] = loc
Goto(h, loc) == pc' = [pc EXCEPT ![h] = loc]

Showing == {h \in Handlers : pc[h] \in {"draw", "draw2", "send"}}

(* Mutant: the buffer is not cleared.                                       *)
Clear_Not(h) ==
    /\ At(h, "clear")
    /\ alone' = (alone \ Showing) \cup (IF Showing = {} THEN {h} ELSE {})
    /\ Goto(h, "draw")
    /\ UNCHANGED <<disp, panel>>

(* oled_clear.                                                              *)
Clear(h) ==
    /\ At(h, "clear")
    /\ disp' = Blank
    /\ alone' = (alone \ Showing) \cup (IF Showing = {} THEN {h} ELSE {})
    /\ Goto(h, "draw")
    /\ UNCHANGED <<panel>>

(* oled_putstrto, in two goes.                                              *)
DrawPart(h, part, from, to) ==
    /\ At(h, from)
    /\ disp' = [disp EXCEPT ![part] = @ \cup {h}]
    /\ Goto(h, to)
    /\ UNCHANGED <<panel, alone>>

Draw(h)  == DrawPart(h, 1, "draw", "draw2")
Draw2(h) == DrawPart(h, 2, "draw2", "send")

(* Mutant: the first text to be drawn is sent only once.                    *)
SendBuffer_Once(h) ==
    /\ At(h, "send")
    /\ panel' = IF panel = Greeting THEN disp ELSE panel
    /\ Goto(h, "end")
    /\ UNCHANGED <<disp, alone>>

(* oled_send_buffer.                                                        *)
SendBuffer(h) ==
    /\ At(h, "send")
    /\ panel' = disp
    /\ Goto(h, "end")
    /\ UNCHANGED <<disp, alone>>

Next ==
    \E h \in Handlers : Clear(h) \/ Draw(h) \/ Draw2(h) \/ SendBuffer(h)

Spec == Init /\ [][Next]_vars

-----------------------------------------------------------------------------
(* A display spoilt by two shows at a time is put right by the next that    *)
(* runs alone: it leaves exactly its own text on the panel.                 *)
LoneShowIsExact ==
    [][\A h \in alone : pc[h] = "send" /\ pc'[h] = "end" =>
          panel' = [p \in Parts |-> {h}]]_vars

(* Once no show is running the panel is not blank in any part, however the  *)
(* clears and draws of the shows before were mixed, and it is what the      *)
(* buffer holds.                                                            *)
PanelSettles ==
    Showing = {} => panel = disp /\ \A p \in Parts : panel[p] # {}
=============================================================================
