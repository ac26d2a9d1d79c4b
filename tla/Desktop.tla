------------------------------- MODULE Desktop -------------------------------
(***************************************************************************)
(* The display server's desktop (service/display): the windows of clients,  *)
(* the active one, the keyboard, and the pixels each window shows, an image  *)
(* in shared memory that the server makes anew whenever the layout changes   *)
(* the window's size.  An event is handled as a whole, in the server's loop. *)
(*                                                                          *)
(* Sizes are abstract: Slot says which of the rectangles of Tile have equal  *)
(* sizes.  The images' names, random numbers in the code, are fresh numbers. *)
(***************************************************************************)
EXTENDS Integers, Sequences, SequencesExt, FiniteSetsExt

CONSTANTS
    Clients,        \* connections; a client asks for one window
    Keys,           \* keys of the keyboard, "alt", "s", "q" among them
    AskedFits,      \* the whole workspace has the size that clients ask for
    MaxFaults,      \* bound: how often shared memory is refused
    MaxQueue,       \* bound: messages on a connection before a key is typed
    None            \* no client

ASSUME FaultsNat == MaxFaults \in Nat
ASSUME ClientsFinite == IsFiniteSet(Clients)
ASSUME FitsBoolean == AskedFits \in BOOLEAN
ASSUME NoneIsNone == None \notin Clients

VARIABLES
    windows,        \* the workspace's children, in order
    active,         \* activeSurface
    win,            \* each client's surface: [rect, image]
    keys,           \* the keys the desktop takes to be down
    held,           \* the keys that are down
    segments,       \* the images that exist in shared memory
    mapped,         \* those of them that the server maps
    serial,         \* the next name of an image
    toClient,       \* messages on their way to each client
    open,           \* clients whose end of the connection is open
    server,         \* "up", or "down" after a panic
    faults          \* refusals of shared memory that are left

desktop == <<windows, active, win, keys, held, segments, mapped, serial, toClient,
             open, server, faults>>

(* Tile: one window fills the workspace; of more the first one is the master *)
(* and the others share the rest, of which the last one gets the remainder.  *)
Slot(n, i) == IF n > 1 /\ i = 1 THEN <<0, "master">>
              ELSE <<n, IF i = n THEN "last" ELSE "stack">>

(* The size that clients ask for, 800 by 600. *)
Asked == IF AskedFits THEN Slot(1, 1) ELSE <<0, "asked">>

Image(id, size) == [id |-> id, size |-> size]
NoSurface == [rect |-> Asked, image |-> Image(0, Asked)]
Message(type, image) == [type |-> type, image |-> image]
NoImage == Image(0, Asked)

Init ==
    /\ windows = <<>> /\ active = None
    /\ win = [c \in Clients |-> NoSurface]
    /\ keys = {} /\ held = {}
    /\ segments = {} /\ mapped = {} /\ serial = 1
    /\ toClient = [c \in Clients |-> <<>>]
    /\ open = Clients
    /\ server = "up"
    /\ faults = MaxFaults

-----------------------------------------------------------------------------
(* Mutant of Misfits: the bounds the window had are compared, not its image's. *)
MisfitsOfRect(ws, w) == {i \in DOMAIN ws : w[ws[i]].rect # Slot(Len(ws), i)}

(* Tile and SetBounds.  The windows ws, whose surfaces are w, take their slots *)
(* in turn.  One whose image has another size gets a new image, unless shared *)
(* memory is refused; the client is told and the old image detached.         *)
Misfits(ws, w) == {i \in DOMAIN ws : w[ws[i]].image.size # Slot(Len(ws), i)}

(* What a surface is after the layout, new images being named from n on. *)
Placed(ws, w, new, n, i) ==
    LET slot == Slot(Len(ws), i)
    IN  [rect |-> slot,
         image |-> IF i \in new THEN Image(n + Cardinality({j \in new : j < i}), slot)
                   ELSE w[ws[i]].image]

Index(ws, c) == CHOOSE i \in DOMAIN ws : ws[i] = c

Tiled(ws, w, new, n) == [c \in Clients |->
    IF c \in Range(ws) THEN Placed(ws, w, new, n, Index(ws, c)) ELSE w[c]]
Resized(ws, new) == {ws[i] : i \in new}

(* Images are exchanged: the server maps the new one and detaches the old one,  *)
(* which it also asks the kernel to remove, with a command the kernel does not *)
(* know (Control(10) instead of IPC_RMID): the segment stays.                *)
Of(w, cs) == {w[c].image : c \in cs}

(* Mutant of Exchanged: the image that is detached is the new one. *)
ExchangedNew(maps, w, w2, cs) == maps \ Of(w2, cs)

Exchanged(maps, w, w2, cs) == (maps \ Of(w, cs)) \cup Of(w2, cs)

(* Mutant of ToldResize: the message is made before the image is replaced. *)
ToldOld(out, w2, cs) == [c \in Clients |->
    IF c \in cs /\ c \in open THEN Append(out[c], Message("Resize", win[c].image)) ELSE out[c]]

ToldResize(out, w2, cs) == [c \in Clients |->
    IF c \in cs /\ c \in open THEN Append(out[c], Message("Resize", w2[c].image)) ELSE out[c]]

(* Mutant of Announced: nothing is sent. *)
AnnouncedNever(out, w2, fresh) == out

(* A new surface is announced with the bounds of its window. *)
Announced(out, w2, fresh) == [c \in Clients |->
    IF c = fresh /\ c \in open
    THEN Append(out[c], Message("Created", Image(w2[c].image.id, w2[c].rect))) ELSE out[c]]

(* The windows ws are laid out, their surfaces being w, after the images made   *)
(* were; then the one of the client fresh, if any, is announced.             *)
Lay(ws, w, made, fresh) ==
    \E refused \in SUBSET Misfits(ws, w) :
        LET n == serial + Cardinality(made)
            new == Misfits(ws, w) \ refused
            w2 == Tiled(ws, w, new, n)
            cs == Resized(ws, new)
        IN  /\ Cardinality(refused) <= faults
            /\ faults' = faults - Cardinality(refused)
            /\ windows' = ws
            /\ win' = w2
            /\ serial' = n + Cardinality(new)
            /\ segments' = segments \cup made \cup Of(w2, cs)
            /\ mapped' = Exchanged(mapped \cup made, w, w2, cs)
            /\ toClient' = Announced(ToldResize(toClient, w2, cs), w2, fresh)

-----------------------------------------------------------------------------
(* surface.Create: the surface is made at the size the client asked for, laid  *)
(* out among the windows, which may resize it, and only then announced, with  *)
(* the bounds of the window and the image it has by now.                     *)
Create(c) ==
    /\ server = "up" /\ win[c] = NoSurface
    /\ active' = c
    /\ LET im == Image(serial, Asked)
       IN  Lay(Append(windows, c), [win EXCEPT ![c].image = im], {im}, c)
    /\ UNCHANGED <<keys, held, open, server>>

(* Shared memory is refused: the client hears nothing. *)
CreateRefused(c) ==
    /\ server = "up" /\ win[c] = NoSurface
    /\ faults > 0 /\ faults' = faults - 1
    /\ UNCHANGED <<windows, active, win, keys, held, segments, mapped, serial,
                   toClient, open, server>>

(* The loop lays the windows out before each frame. *)
Frame ==
    /\ server = "up" /\ Misfits(windows, win) # {}
    /\ Lay(windows, win, {}, None)
    /\ UNCHANGED <<active, keys, held, open, server>>

(* slices.Delete of a window, if it is there. *)
Without(ws, c) == IF c \in Range(ws) THEN RemoveAt(ws, Index(ws, c)) ELSE ws

(* Mutant of RemoveActive: the active window is not replaced. *)
RemoveOnly ==
    /\ UNCHANGED <<active, server>>
    /\ Lay(Without(windows, active), win, {}, None)

(* Alt and Q: the active window goes, and its image stays.  The window that    *)
(* came last is active then.                                                 *)
RemoveActive ==
    LET ws == Without(windows, active)
    IN  /\ active' = IF ws = <<>> THEN None ELSE Last(ws)
        /\ Lay(ws, win, {}, None)
        /\ UNCHANGED server

(* Alt and S: the next window is active; without any the remainder panics. *)
Switch ==
    /\ IF windows = <<>> THEN server' = "down" /\ UNCHANGED active
       ELSE /\ active' = windows[(Index(windows, active) % Len(windows)) + 1]
            /\ UNCHANGED server
    /\ UNCHANGED <<windows, win, segments, mapped, serial, toClient, faults>>

(* Any other key goes to the client of the active window. *)
Propagate ==
    /\ toClient' = IF active \in open
                   THEN [toClient EXCEPT ![active] = Append(@, Message("key", NoImage))]
                   ELSE toClient
    /\ UNCHANGED <<windows, active, win, segments, mapped, serial, server, faults>>

(* A key event: only a press, neither a release nor a repeat, makes a key one  *)
(* that is down.                                                             *)
Handle(k, state) ==
    /\ keys' = IF state = "Pressed" THEN keys \cup {k} ELSE keys \ {k}
    /\ CASE "alt" \in keys' /\ state = "Pressed" /\ k = "s" -> Switch
         [] "alt" \in keys' /\ state = "Pressed" /\ k = "q" -> RemoveActive
         [] OTHER -> Propagate

Type(k, state) ==
    /\ server = "up"
    /\ active \in Clients => Len(toClient[active]) < MaxQueue
    /\ (state = "Pressed") = (k \notin held)
    /\ held' = IF state = "Release" THEN held \ {k} ELSE held \cup {k}
    /\ Handle(k, state)
    /\ UNCHANGED open

(* The client ends: what is on its way to it is lost, its window stays. *)
Close(c) ==
    /\ c \in open
    /\ open' = open \ {c}
    /\ toClient' = [toClient EXCEPT ![c] = <<>>]
    /\ UNCHANGED <<windows, active, win, keys, held, segments, mapped, serial,
                   server, faults>>

(* The client reads everything that was sent to it. *)
Drain(c) ==
    /\ toClient[c] # <<>>
    /\ toClient' = [toClient EXCEPT ![c] = <<>>]
    /\ UNCHANGED <<windows, active, win, keys, held, segments, mapped, serial,
                   open, server, faults>>

Next ==
    \/ Frame
    \/ \E c \in Clients : Create(c) \/ CreateRefused(c) \/ Close(c) \/ Drain(c)
    \/ \E k \in Keys : \E state \in {"Pressed", "Repeat", "Release"} : Type(k, state)

Spec == Init /\ [][Next]_desktop

-----------------------------------------------------------------------------
(* The keyboard belongs to a window as long as there is one, whatever windows  *)
(* were opened, raised and removed: no key is lost between windows, none goes *)
(* to a surface that is not on the screen.                                   *)
FocusOnWindow ==
    IF windows = <<>> THEN active = None ELSE active \in Range(windows)

(* The server maps one image of each surface that was ever made, the one it     *)
(* draws from: a resize detaches what it replaces, also where another one was *)
(* refused.  (Of a window removed with Alt and Q it stays mapped.)           *)
OneImageEach ==
    LET made == {c \in Clients : win[c] # NoSurface}
    IN  mapped = Of(win, made) /\ Cardinality(mapped) = Cardinality(made)

(* "IPC_RMID = 0" (pkg/kernel/shm/shm.go:39) removes a segment: of the images  *)
(* that were destroyed none would be left.                                   *)
DestroyedIsGone == segments = mapped

(* However often shared memory was refused, in the end every window has an     *)
(* image of its size: the loop tries again.                                  *)
AllFit == \A i \in DOMAIN windows : win[windows[i]].image.size = Slot(Len(windows), i)
FitsAgain == []<>(server = "down" \/ AllFit)
=============================================================================
