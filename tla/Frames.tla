------------------------------- MODULE Frames -------------------------------
(***************************************************************************)
(* Frames of the display server: the loop of app.Run (pkg/graphics/app) over *)
(* the windows of the desktop, their dirty flags (pkg/graphics/widget), and   *)
(* the two buffers of the card (pkg/graphics/backend/drmkms), of which one is *)
(* on the screen.                                                           *)
(*                                                                          *)
(* A frame is drawn in two steps, the background and the windows: what is on *)
(* the screen while it is drawn into would show the first without the second. *)
(***************************************************************************)
EXTENDS Integers

CONSTANTS
    Windows,        \* windows that a workspace may have
    MaxImages,      \* bound: the drawings of a client
    MaxFaults       \* bound: how often the card refuses

ASSUME ImagesNat == MaxImages \in Nat
ASSUME RefusalsNat == MaxFaults \in Nat

VARIABLES
    pc,             \* the loop: "off", "ready", "draw", "paint", "flip", "poll"
                    \* or "error"
    windows,        \* the workspace's children
    misfits,        \* those whose image has another size than their rectangle
    dirty,          \* what is marked dirty: windows, and "workspace"
    image,          \* what the image of each window shows: the client's drawing of
                    \* that number, 0 for nothing
    content,        \* of each buffer: what it shows of each window
    shown,          \* the buffer on the screen
    next,           \* the buffer that Canvas returns
    flipped,        \* history: a frame has been shown
    meant,          \* history: the windows of the frame that was shown last
    faults          \* refusals that are left

frames == <<pc, windows, misfits, dirty, image, content, shown, next, flipped, meant, faults>>

Absent == -1
Buffers == {0, 1}
Blank == [w \in Windows |-> Absent]
Painted(b) == {w \in Windows : content[b][w] # Absent}

FInit ==
    /\ pc = "off" /\ windows = {} /\ misfits = {} /\ dirty = {}
    /\ image = [w \in Windows |-> 0]
    /\ content = [b \in Buffers |-> Blank]
    /\ shown = 0 /\ next = 0 /\ flipped = FALSE /\ meant = {}
    /\ faults = MaxFaults

(* setupCard: two new buffers, of which the first is displayed, and is also the *)
(* first to be drawn into.                                                   *)
Setup ==
    /\ pc = "off" /\ pc' = "ready"
    /\ content' = [b \in Buffers |-> Blank]
    /\ shown' = 0 /\ next' = 0 /\ flipped' = FALSE /\ meant' = {}
    /\ UNCHANGED <<windows, misfits, dirty, image, faults>>

(* Run, before its loop: everything is dirty. *)
Begin ==
    /\ pc = "ready" /\ pc' = "draw"
    /\ dirty' = {"workspace"}
    /\ UNCHANGED <<windows, misfits, image, content, shown, next, flipped, meant, faults>>

-----------------------------------------------------------------------------
(* Mutant of Laid: Tile reports no change. *)
LaidUnchanged == dirty

(* SetBounds, before each frame: Tile reports a change as soon as there is a    *)
(* window, which marks the workspace and its children.                       *)
Laid == IF windows = {} THEN dirty ELSE dirty \cup {"workspace"} \cup windows

(* A window gets a new image, of the size of its rectangle, with nothing in it. *)
Renewed(ws) == [w \in Windows |-> IF w \in ws THEN 0 ELSE image[w]]

(* SetBounds tries again for images that were refused, and Display.Draw fills   *)
(* the canvas before the windows are drawn.  The workspace's mark is never     *)
(* taken back, so that the loop draws each time.                             *)
Fill(resized) ==
    /\ pc = "draw"
    /\ resized \subseteq misfits /\ misfits' = misfits \ resized
    /\ image' = Renewed(resized)
    /\ dirty' = Laid
    /\ IF dirty' = {} THEN pc' = "poll" /\ UNCHANGED content
       ELSE pc' = "paint" /\ content' = [content EXCEPT ![next] = Blank]
    /\ UNCHANGED <<windows, shown, next, flipped, meant, faults>>

(* Workspace.Draw: the windows that are dirty. *)
Paint ==
    /\ pc = "paint" /\ pc' = "flip"
    /\ content' = [content EXCEPT ![next] =
           [w \in Windows |-> IF w \in windows \cap dirty THEN image[w] ELSE @[w]]]
    /\ dirty' = dirty \ windows
    /\ UNCHANGED <<windows, misfits, image, shown, next, flipped, meant, faults>>

(* Backend.Update: the card shows the buffer, which is copied to the other one, *)
(* or it refuses.                                                            *)
Flip ==
    /\ pc = "flip" /\ pc' = "poll"
    /\ shown' = next /\ flipped' = TRUE /\ meant' = windows
    /\ content' = [content EXCEPT ![1 - next] = content[next]]
    /\ next' = 1 - next
    /\ UNCHANGED <<windows, misfits, dirty, image, faults>>

FlipFails ==
    /\ pc = "flip" /\ pc' = "poll"
    /\ faults > 0 /\ faults' = faults - 1
    /\ UNCHANGED <<windows, misfits, dirty, image, content, shown, next, flipped, meant>>

(* The events of a poll: windows come, each with a new image, one may go, and   *)
(* some are damaged.  Where one comes or goes Tile gives others new images;    *)
(* which, and that what comes at once may be resized by the next, is said in   *)
(* Desktop.  Shared memory may be refused: what should have been resized keeps *)
(* the image it has.                                                         *)
Events(new, gone, resized, damaged) ==
    /\ pc = "poll" /\ pc' = "draw"
    /\ windows' = (windows \cup new) \ gone
    /\ IF new \cup gone = {} THEN resized = {} /\ UNCHANGED misfits
       ELSE resized \subseteq windows' /\ misfits' \in SUBSET windows'
    /\ image' = Renewed(new \cup resized)
    /\ dirty' = (dirty \cup new \cup (damaged \cap windows)
                   \cup (IF gone = {} THEN {} ELSE windows)) \ gone
    /\ UNCHANGED <<content, shown, next, flipped, meant, faults>>

(* A client draws into the image of its window, at any time: it is shared. *)
Write(w, drawing) ==
    /\ w \in windows
    /\ image' = [image EXCEPT ![w] = drawing]
    /\ UNCHANGED <<pc, windows, misfits, dirty, content, shown, next, flipped, meant, faults>>

(* A panic while events are handled: Run draws the error over everything, and   *)
(* shows it if the card does not refuse.                                     *)
Error ==
    /\ pc = "poll" /\ pc' = "error"
    /\ \/ /\ content' = [b \in Buffers |-> Blank]
          /\ shown' = next /\ next' = 1 - next /\ flipped' = TRUE /\ meant' = {}
          /\ UNCHANGED faults
       \/ /\ content' = [content EXCEPT ![next] = Blank]
          /\ faults > 0 /\ faults' = faults - 1
          /\ UNCHANGED <<shown, next, flipped, meant>>
    /\ UNCHANGED <<windows, misfits, dirty, image>>

(* The process ends, at any time, perhaps because the card refused. *)
Stop ==
    /\ pc' = "off"
    /\ windows' = {} /\ misfits' = {} /\ dirty' = {}
    /\ image' = [w \in Windows |-> 0]
    /\ content' = [b \in Buffers |-> Blank]
    /\ shown' = 0 /\ next' = 0 /\ flipped' = FALSE /\ meant' = {}

FNext ==
    \/ Setup \/ Begin \/ Paint \/ Flip \/ FlipFails \/ Error
    \/ Stop /\ UNCHANGED faults
    \/ Stop /\ faults > 0 /\ faults' = faults - 1
    \/ \E resized \in SUBSET Windows : Fill(resized)
    \/ \E new, gone, resized, damaged \in SUBSET Windows : Events(new, gone, resized, damaged)
    \/ \E w \in Windows : \E drawing \in 0 .. MaxImages : Write(w, drawing)

FSpec == FInit /\ [][FNext]_frames

-----------------------------------------------------------------------------
(* Once a frame has been shown, the screen shows each window of the last one    *)
(* that was: it is not drawn into, no window is left out for not being dirty,  *)
(* and a refusal of the card does not let the next frame be drawn into what is *)
(* shown.  (The first frame is drawn into the buffer that is on the screen.)  *)
ShownIsWhole == flipped => Painted(shown) = meant
=============================================================================
