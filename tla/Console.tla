------------------------------- MODULE Console -------------------------------
(***************************************************************************)
(* The console (apps/console/main.go): what a program writes to the terminal *)
(* comes in pieces, cut anywhere; escape sequences are taken out, the rest is *)
(* put on a grid that changes its size with the window.                      *)
(*                                                                          *)
(* Bytes are told apart as far as Update does: "0" stands for what is printed *)
(* and may be a parameter of a sequence, "H" for what is printed and would    *)
(* end one, as "[" is and does too.  A cell is inked or blank.                *)
(***************************************************************************)
EXTENDS Integers, Sequences, FiniteSetsExt

CONSTANTS
    Sizes,          \* sizes of the window, in cells: <<rows, cols>>
    MaxRead,        \* bound: bytes of one Read
    MaxBack         \* bound: length of an unfinished sequence when more is read

ASSUME SizesPositive == Sizes \subseteq (Nat \ {0}) \X (Nat \ {0})
ASSUME BoundsNat == MaxRead \in Nat \ {0} /\ MaxBack \in Nat

Bytes == {"esc", "[", "0", "H", "nl", "cr", "bs"}
Printable == {"[", "0", "H"}
Final == {"[", "H"}

VARIABLES
    screen,         \* [rows, cols, x, y, grid, up]: up until an index panics
    back,           \* an unfinished sequence, kept for the next event
    dirty,
    shown,          \* the grid and the cursor as last drawn
    whole           \* history: the screen, had the bytes come one by one

vars == <<screen, back, dirty, shown, whole>>

Blank(size) == [y \in 0..(size[1] - 1) |-> [x \in 0..(size[2] - 1) |-> " "]]
Fresh(size, y, x) ==
    [rows |-> size[1], cols |-> size[2], y |-> y, x |-> x, grid |-> Blank(size), up |-> TRUE]
View(s) == [grid |-> s.grid, y |-> s.y, x |-> s.x]
OnGrid(s, y, x) == y < s.rows /\ x < s.cols

-----------------------------------------------------------------------------
(* What a byte outside of a sequence does. *)
Filled(s, y, x, ch) == [s EXCEPT !.grid[y][x] = ch]

ScrolledUp(s) ==
    [s EXCEPT !.grid = [y \in DOMAIN s.grid |->
        IF y = s.rows - 1 THEN [x \in 0..(s.cols - 1) |-> " "] ELSE s.grid[y + 1]]]

NewLine(s) ==
    IF s.y + 1 < s.rows THEN [s EXCEPT !.x = 0, !.y = @ + 1]
    ELSE [ScrolledUp(s) EXCEPT !.x = 0, !.y = s.rows - 1]

(* A backspace goes back over the line's start; the cell it clears may be off   *)
(* the grid, which panics.                                                   *)
Backspace(s) ==
    LET y == IF s.x > 0 THEN s.y ELSE s.y - 1
        x == IF s.x > 0 THEN s.x - 1 ELSE s.cols - 1
    IN  IF s.x = 0 /\ s.y = 0 THEN s
        ELSE IF OnGrid(s, y, x) THEN [Filled(s, y, x, " ") EXCEPT !.y = y, !.x = x]
        ELSE [s EXCEPT !.up = FALSE]

(* Mutant of Type: the test of the last column is one off. *)
TypeBeyond(s) ==
    LET t == IF OnGrid(s, s.y, s.x) THEN Filled(s, s.y, s.x, "ink") ELSE s
    IN  IF t.x + 1 <= t.cols THEN [t EXCEPT !.x = @ + 1] ELSE NewLine(t)

Type(s) ==
    LET t == IF OnGrid(s, s.y, s.x) THEN Filled(s, s.y, s.x, "ink") ELSE s
    IN  IF t.x + 1 < t.cols THEN [t EXCEPT !.x = @ + 1] ELSE NewLine(t)

Put(s, b) ==
    CASE b = "nl" -> NewLine(s)
      [] b = "cr" -> [s EXCEPT !.x = 0]
      [] b = "bs" -> Backspace(s)
      [] b \in Printable -> Type(s)
      [] OTHER -> s

(* A turn of the loop over the bytes ev of an event, with what was kept: c.i    *)
(* is the byte it is at.  A sequence whose final byte is not there yet is      *)
(* kept, a lone ESC is not.  processEscape is called without the final byte,   *)
(* which it looks for: it never finds one of its two, 'J' and 'H', and does    *)
(* nothing.                                                                 *)
Over(ev, c) == c.i > Len(ev) \/ ~c.screen.up \/ c.back # <<>>
Lone(ev, i) == i = Len(ev) \/ ev[i + 1] # "["
Ends(ev, i) == {k \in (i + 2)..Len(ev) : ev[k] \in Final}

Turn(ev, c) ==
    IF Over(ev, c) THEN c
    ELSE IF ev[c.i] # "esc" THEN [c EXCEPT !.screen = Put(@, ev[c.i]), !.i = @ + 1]
    ELSE IF Lone(ev, c.i) THEN [c EXCEPT !.i = @ + 1]
    ELSE IF Ends(ev, c.i) = {} THEN [c EXCEPT !.back = SubSeq(ev, c.i, Len(ev))]
    ELSE [c EXCEPT !.i = Min(Ends(ev, c.i)) + 1]

(* Every turn but the last one goes on by a byte at least. *)
Loop(s, ev) ==
    LET turn[n \in 0..Len(ev)] ==
            IF n = 0 THEN [screen |-> s, i |-> 1, back |-> <<>>] ELSE Turn(ev, turn[n - 1])
    IN  turn
Run(s, ev) == Loop(s, ev)[Len(ev)]

-----------------------------------------------------------------------------
(* The reference: a console that takes one byte at a time and only knows in     *)
(* which part of a sequence it is.                                           *)
Step(w, b) ==
    CASE w.mode = "csi" -> [w EXCEPT !.mode = IF b \in Final THEN "text" ELSE "csi"]
      [] w.mode = "esc" /\ b = "[" -> [w EXCEPT !.mode = "csi"]
      [] w.mode # "csi" /\ b = "esc" -> [w EXCEPT !.mode = "esc"]
      [] OTHER -> [mode |-> "text", screen |-> IF w.screen.up THEN Put(w.screen, b) ELSE w.screen]

Steps(w, ev) ==
    LET after[n \in 0..Len(ev)] == IF n = 0 THEN w ELSE Step(after[n - 1], ev[n])
    IN  after

(* An ESC that an event ends with is lost. *)
Settled(w) == IF w.mode = "esc" THEN [w EXCEPT !.mode = "text"] ELSE w

-----------------------------------------------------------------------------
Init ==
    /\ \E size \in Sizes : screen = Fresh(size, 0, 0)
    /\ back = <<>> /\ dirty = FALSE
    /\ shown = View(screen)
    /\ whole = [mode |-> "text", screen |-> screen]

(* Mutant of Update: what was kept is put behind what was read. *)
UpdateBehind(ev) ==
    LET r == Run(screen, ev \o back)
    IN  /\ screen.up /\ Len(back) <= MaxBack
        /\ screen' = r.screen
        /\ back' = r.back
        /\ dirty' = (dirty \/ r.back = <<>>)
        /\ whole' = Settled(Steps(whole, ev)[Len(ev)])
        /\ UNCHANGED shown

(* Update with a VTEvent.  When a sequence is kept it returns before SetDirty. *)
Update(ev) ==
    LET r == Run(screen, back \o ev)
    IN  /\ screen.up /\ Len(back) <= MaxBack
        /\ screen' = r.screen
        /\ back' = r.back
        /\ dirty' = (dirty \/ r.back = <<>>)
        /\ whole' = Settled(Steps(whole, ev)[Len(ev)])
        /\ UNCHANGED shown

(* SetBounds: another size, be it of as many cells, clears the grid; the cursor *)
(* stays where it is.                                                        *)
Bounded(s, size, resized) == IF resized THEN Fresh(size, s.y, s.x) ELSE s

(* Mutant of Frame: the window is drawn before it gets its bounds. *)
FrameEarly(size, resized) ==
    /\ screen.up
    /\ dirty \/ resized
    /\ resized \/ size = <<screen.rows, screen.cols>>
    /\ screen' = Bounded(screen, size, resized)
    /\ whole' = [whole EXCEPT !.screen = Bounded(@, size, resized)]
    /\ shown' = View(screen)
    /\ dirty' = FALSE
    /\ UNCHANGED back

(* After the events the loop of app.Run sets the bounds and draws. *)
Frame(size, resized) ==
    /\ screen.up
    /\ dirty \/ resized
    /\ resized \/ size = <<screen.rows, screen.cols>>
    /\ screen' = Bounded(screen, size, resized)
    /\ whole' = [whole EXCEPT !.screen = Bounded(@, size, resized)]
    /\ shown' = View(screen')
    /\ dirty' = FALSE
    /\ UNCHANGED back

Next ==
    \/ \E n \in 1..MaxRead : \E ev \in [1..n -> Bytes] : Update(ev)
    \/ \E size \in Sizes : \E resized \in BOOLEAN : Frame(size, resized)

Spec == Init /\ [][Next]_vars

-----------------------------------------------------------------------------
(* Wherever the bytes are cut into events, the screen is that of a console that *)
(* got them one by one, but for an ESC at the very end of an event, which is   *)
(* lost: what follows it is printed.                                         *)
CutsDoNotShow ==
    /\ View(screen) = View(whole.screen) /\ screen.up = whole.screen.up
    /\ (back # <<>>) = (whole.mode = "csi" /\ screen.up)

(* Text leaves the cursor on the grid and indexes no cell off it; only a resize  *)
(* can leave it elsewhere, since SetBounds does not move it.                  *)
StaysOnGrid ==
    [][ OnGrid(screen, screen.y, screen.x) /\ <<screen'.rows, screen'.cols>> = <<screen.rows, screen.cols>>
          => screen'.up /\ OnGrid(screen', screen'.y, screen'.x) ]_vars

(* The window shows what the grid holds once it was drawn; the exception is     *)
(* text that came in one event with the beginning of a sequence, which is not  *)
(* drawn before the sequence ends.                                           *)
ShowsWhatItHolds == screen.up /\ ~dirty /\ back = <<>> => shown = View(screen)
=============================================================================
