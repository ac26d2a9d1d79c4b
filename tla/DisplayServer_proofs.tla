------------------------ MODULE DisplayServer_proofs ------------------------
(* Theorems about the display server: its steps are those of Frames, what it    *)
(* shows is whole, its role follows from the file, and no source is lost.     *)
EXTENDS DisplayServer, TLAPS

(* The buffer that is drawn into is not the one on the screen, and between      *)
(* drawing and showing it holds what is meant.                               *)
FTypes ==
    /\ windows \subseteq Windows /\ misfits \subseteq Windows
    /\ image \in [Windows -> Nat]
    /\ content \in [Buffers -> [Windows -> Int]]
    /\ shown \in Buffers /\ next \in Buffers
Apart == flipped => shown # next
Drawn ==
    /\ pc = "paint" => windows \subseteq dirty /\ content[next] = Blank
    /\ pc = "flip" => Painted(next) = windows

FInv == FTypes /\ Apart /\ Drawn /\ ShownIsWhole

(* Nothing runs while the process is down, and the file tells of an earlier one. *)
DownIsEmpty ==
    main = "down" => /\ acc = "off" /\ epoll = {} /\ mutex = "free"
                     /\ adding = [t \in Threads |-> NotAdding]
FileIsLeft == main = "down" => (socket = "none" \/ left)
RoleInv == DownIsEmpty /\ FileIsLeft /\ ClientOnlyAfterCrash

(* In the DRM backend one goroutine adds at a time, having read the slice last. *)
Holds(t) == adding[t].at \in {"epoll", "store"}
OneAdds ==
    role = "drm" =>
        /\ \A t \in Threads : Holds(t) => mutex = t
        /\ \A t \in Threads : adding[t].at = "store" => adding[t].seen = sources
SourcesKnown ==
    role = "drm" => \A s \in epoll :
        \/ s \in sources \cap fdsrc
        \/ \E t \in Threads : adding[t].at = "store" /\ adding[t].src = s
AddingTypes ==
    /\ adding = [t \in Threads |-> adding[t]]
    /\ \A t \in Threads :
          adding[t] = [at |-> adding[t].at, src |-> adding[t].src, seen |-> adding[t].seen]
AddingInv == AddingTypes /\ OneAdds /\ SourcesKnown

(* Who starts adds nothing yet. *)
StartAddsNone == main \in {"down", "start"} => adding["main"].at = "no"

(* No client draws more than it may. *)
DrawnType == drawn \in [Clients -> 0 .. MaxImages]

IInv == FInv /\ RoleInv /\ AddingInv /\ StartAddsNone /\ DrawnType
-----------------------------------------------------------------------------
LEMMA FInitInv == FInit => FInv
<1> SUFFICES ASSUME FInit PROVE FInv
  OBVIOUS
<1>1. FTypes
  BY DEF FInit, FTypes, Buffers, Blank, Absent
<1> QED
  BY <1>1 DEF FInit, FInv, Apart, Drawn, ShownIsWhole

LEMMA SetupKeeps == ASSUME FInv, Setup PROVE FInv'
<1>1. FTypes'
  BY DEF FInv, FTypes, Setup, Buffers, Blank, Absent
<1> QED
  BY <1>1 DEF Setup, FInv, Apart, Drawn, ShownIsWhole

LEMMA StopKeeps == ASSUME FInv, Stop PROVE FInv'
<1>1. FTypes'
  BY DEF FInv, FTypes, Stop, Buffers, Blank, Absent
<1> QED
  BY <1>1 DEF Stop, FInv, Apart, Drawn, ShownIsWhole

LEMMA RenewedType == ASSUME FTypes, NEW ws PROVE Renewed(ws) \in [Windows -> Nat]
  BY DEF FTypes, Renewed

LEMMA FillKeeps == ASSUME FInv, NEW resized, Fill(resized) PROVE FInv'
<1>0. /\ UNCHANGED <<windows, shown, next, flipped, meant>>
      /\ image' \in [Windows -> Nat] /\ misfits' \subseteq Windows
  BY RenewedType DEF Fill, FInv, FTypes
<1>1. UNCHANGED <<windows, shown, next, flipped, meant>> /\ pc = "draw" /\ dirty' = Laid
  BY DEF Fill
<1>2. CASE dirty' = {}
  <2>1. UNCHANGED content /\ pc' = "poll"
    BY <1>2 DEF Fill
  <2> QED
    BY <1>0, <1>1, <2>1 DEF FInv, FTypes, Apart, Drawn, ShownIsWhole, Painted
<1>3. CASE dirty' # {}
  <2>1. pc' = "paint" /\ content' = [content EXCEPT ![next] = Blank]
    BY <1>3 DEF Fill
  <2>2. content' \in [Buffers -> [Windows -> Int]] /\ content'[next] = Blank
        /\ \A b \in Buffers \ {next} : content'[b] = content[b]
    BY <2>1 DEF FInv, FTypes, Blank, Absent
  <2>3. FTypes'
    BY <1>0, <2>2 DEF FInv, FTypes
  <2>4. Drawn'
    BY <1>1, <2>1, <2>2 DEF Drawn, Laid
  <2>5. ShownIsWhole'
    BY <1>1, <2>2 DEF FInv, FTypes, Apart, ShownIsWhole, Painted
  <2> QED
    BY <1>1, <2>3, <2>4, <2>5 DEF FInv, Apart
<1> QED
  BY <1>2, <1>3

LEMMA PaintKeeps == ASSUME FInv, Paint PROVE FInv'
<1> DEFINE new == [w \in Windows |-> IF w \in windows \cap dirty THEN image[w] ELSE content[next][w]]
<1>1. /\ UNCHANGED <<windows, misfits, image, shown, next, flipped, meant>> /\ pc = "paint" /\ pc' = "flip"
      /\ content' = [content EXCEPT ![next] = new]
  BY DEF Paint
<1>2. new \in [Windows -> Int]
  BY DEF FInv, FTypes
<1>3. {w \in Windows : new[w] # Absent} = windows
  <2>1. windows \subseteq dirty /\ content[next] = Blank /\ windows \subseteq Windows
    BY <1>1 DEF FInv, Drawn, FTypes
  <2>2. \A w \in Windows : image[w] # Absent
    BY DEF FInv, FTypes, Absent
  <2> QED
    BY <2>1, <2>2 DEF Blank
<1> HIDE DEF new
<1>4. content' \in [Buffers -> [Windows -> Int]] /\ content'[next] = new
      /\ \A b \in Buffers \ {next} : content'[b] = content[b]
  BY <1>1, <1>2 DEF FInv, FTypes
<1>5. FTypes'
  BY <1>1, <1>4 DEF FInv, FTypes
<1>6. Drawn'
  BY <1>1, <1>3, <1>4 DEF Drawn, Painted
<1>7. ShownIsWhole'
  BY <1>1, <1>4 DEF FInv, FTypes, Apart, ShownIsWhole, Painted
<1> QED
  BY <1>1, <1>5, <1>6, <1>7 DEF FInv, Apart

(* The frame that is shown is what was drawn, and is copied to the other buffer. *)
LEMMA FlipKeeps == ASSUME FInv, Flip PROVE FInv'
<1>1. /\ UNCHANGED <<windows, misfits, dirty, image>> /\ pc = "flip" /\ pc' = "poll"
      /\ shown' = next /\ next' = 1 - next /\ meant' = windows
      /\ content' = [content EXCEPT ![1 - next] = content[next]]
  BY DEF Flip
<1>2. next \in {0, 1} /\ 1 - next \in {0, 1} /\ 1 - next # next
  BY DEF FInv, FTypes, Buffers
<1>3. content' \in [Buffers -> [Windows -> Int]] /\ content'[next] = content[next]
  BY <1>1, <1>2 DEF FInv, FTypes, Buffers
<1>4. Painted(next) = windows
  BY <1>1 DEF FInv, Drawn
<1>5. ShownIsWhole'
  BY <1>1, <1>3, <1>4 DEF ShownIsWhole, Painted
<1>6. FTypes'
  BY <1>1, <1>2, <1>3 DEF FInv, FTypes, Buffers
<1> QED
  BY <1>1, <1>2, <1>5, <1>6 DEF FInv, Apart, Drawn

LEMMA FlipFailsKeeps == ASSUME FInv, FlipFails PROVE FInv'
  BY DEF FInv, FTypes, Apart, Drawn, ShownIsWhole, Painted, FlipFails

LEMMA ErrorKeeps == ASSUME FInv, Error PROVE FInv'
<1>1. UNCHANGED <<windows, misfits, dirty, image>> /\ pc' = "error"
  BY DEF Error
<1>2. CASE content' = [b \in Buffers |-> Blank] /\ shown' = next /\ next' = 1 - next /\ meant' = {}
  <2>1. next \in {0, 1} /\ 1 - next \in {0, 1} /\ 1 - next # next
    BY DEF FInv, FTypes, Buffers
  <2>2. FTypes'
    BY <1>1, <1>2, <2>1 DEF FInv, FTypes, Buffers, Blank, Absent
  <2>3. ShownIsWhole'
    BY <1>2, <2>1 DEF ShownIsWhole, Painted, Buffers, Blank
  <2> QED
    BY <1>1, <1>2, <2>1, <2>2, <2>3 DEF FInv, Apart, Drawn
<1>3. CASE content' = [content EXCEPT ![next] = Blank] /\ UNCHANGED <<shown, next, flipped, meant>>
  <2>1. content' \in [Buffers -> [Windows -> Int]]
        /\ \A b \in Buffers \ {next} : content'[b] = content[b]
    BY <1>3 DEF FInv, FTypes, Blank, Absent
  <2>2. FTypes'
    BY <1>1, <1>3, <2>1 DEF FInv, FTypes
  <2>3. ShownIsWhole'
    BY <1>3, <2>1 DEF FInv, FTypes, Apart, ShownIsWhole, Painted
  <2> QED
    BY <1>1, <1>3, <2>2, <2>3 DEF FInv, Apart, Drawn
<1> QED
  BY <1>2, <1>3 DEF Error

LEMMA FStep == ASSUME FInv, [FNext]_frames PROVE FInv'
<1>1. CASE UNCHANGED frames
  BY <1>1 DEF frames, FInv, FTypes, Apart, Drawn, ShownIsWhole, Painted
<1>2. CASE Begin
  BY <1>2 DEF Begin, FInv, FTypes, Apart, Drawn, ShownIsWhole, Painted
<1>3. ASSUME NEW new \in SUBSET Windows, NEW gone \in SUBSET Windows,
             NEW resized \in SUBSET Windows, NEW damaged \in SUBSET Windows,
             Events(new, gone, resized, damaged)
      PROVE  FInv'
  <2>1. /\ windows' = (windows \cup new) \ gone /\ pc' = "draw"
        /\ image' = Renewed(new \cup resized)
        /\ UNCHANGED <<content, shown, next, flipped, meant>>
    BY <1>3 DEF Events
  <2>2. image' \in [Windows -> Nat] /\ windows' \subseteq Windows
    BY <2>1, RenewedType DEF FInv, FTypes
  <2>3. misfits' \subseteq Windows
    BY <1>3, <2>2 DEF Events, FInv, FTypes
  <2> QED
    BY <2>1, <2>2, <2>3 DEF FInv, FTypes, Apart, Drawn, ShownIsWhole, Painted
<1>4. ASSUME NEW w \in Windows, NEW drawing \in 0 .. MaxImages, Write(w, drawing) PROVE FInv'
  <2>1. /\ image' \in [Windows -> Nat]
        /\ UNCHANGED <<pc, windows, misfits, dirty, content, shown, next, flipped, meant>>
    BY <1>4, ImagesNat DEF Write, FInv, FTypes
  <2> QED
    BY <2>1 DEF FInv, FTypes, Apart, Drawn, ShownIsWhole, Painted
<1> QED
  BY <1>1, <1>2, <1>3, <1>4, SetupKeeps, FillKeeps, PaintKeeps, FlipKeeps, FlipFailsKeeps,
     ErrorKeeps, StopKeeps DEF FNext

(* Frames alone: whatever the events, the screen shows whole frames. *)
THEOREM FramesAreWhole == FSpec => []ShownIsWhole
<1>1. FInv => ShownIsWhole
  BY DEF FInv
<1> QED
  BY FInitInv, FStep, <1>1, PTL DEF FSpec

-----------------------------------------------------------------------------
(* Each step of the server is one of Frames, or leaves it alone. *)
LEMMA StepDraws == ASSUME [SNext]_svars, FTypes, DrawnType PROVE [FNext]_frames
<1>1. CASE UNCHANGED svars
  BY <1>1 DEF svars
<1>2. CASE Exit \/ (Ends /\ faults > 0 /\ faults' = faults - 1)
  BY <1>2 DEF Exit, Ends, FNext
<1>3. CASE Start \/ CardAppears \/ Connect \/ Accepting
  BY <1>3 DEF Start, CardAppears, Connect, Accepting, Remove, Bind, BindFails, Accept
<1>4. CASE Open \/ Construct \/ Draws \/ Panic
  BY <1>4 DEF Open, Construct, Draws, Panic, FNext
<1>9. CASE Tile
  <2>1. PICK resized \in SUBSET misfits : Fill(resized)
    BY <1>9 DEF Tile
  <2> QED
    BY <2>1 DEF FNext, FTypes
<1>5. CASE Poll
  <2>1. PICK got \in SUBSET Ready, gone \in SUBSET windows, new \in SUBSET Clients,
             refused \in SUBSET Clients, resized \in SUBSET (windows \cup Clients) :
                Handled(new, refused, gone, resized, got \cap fdsrc \cap damage)
    BY <1>5 DEF Poll
  <2> QED
    <3> DEFINE hit == got \cap fdsrc \cap damage \cap windows
    <3>1. /\ hit \in SUBSET Windows /\ gone \in SUBSET Windows /\ new \in SUBSET Windows
          /\ resized \in SUBSET Windows
      BY <2>1, WindowsAreClients DEF FTypes
    <3>2. Events(new, gone, resized, hit)
      BY <2>1 DEF Handled, Events
    <3> QED
      BY <3>1, <3>2 DEF FNext
<1>6. CASE OpenFails \/ Recover \/ PollCollides \/ ConnectFails \/ StoresCollide
  BY <1>6, <1>2 DEF OpenFails, Recover, PollCollides, ConnectFails, StoresCollide
<1>7. ASSUME NEW t \in Threads, Adding(t) PROVE [FNext]_frames
  BY <1>7, <1>2 DEF Adding, Lock, Watch, WatchNil, Store
<1>8. ASSUME NEW c \in Clients, Launch(c) \/ Ask(c) \/ Miss(c) PROVE [FNext]_frames
  BY <1>8 DEF Launch, Ask, Miss
<1>10. ASSUME NEW c \in Clients, Draw(c) PROVE [FNext]_frames
  <2>1. CASE Write(c, drawn'[c])
    <3>1. drawn'[c] \in 0 .. MaxImages
      BY <1>10, ImagesNat DEF Draw, DrawnType
    <3> QED
      BY <2>1, <3>1, WindowsAreClients DEF FNext
  <2>2. CASE UNCHANGED frames
    BY <2>2
  <2> QED
    BY <1>10, <2>1, <2>2 DEF Draw
<1>11. ASSUME NEW c \in Clients, Follow(c) PROVE [FNext]_frames
  <2>1. Write(c, drawn[c]) \/ UNCHANGED frames
    BY <1>11 DEF Follow
  <2>2. drawn[c] \in 0 .. MaxImages
    BY DEF DrawnType
  <2> QED
    BY <2>1, <2>2, WindowsAreClients DEF FNext
<1> QED
  BY <1>1, <1>3, <1>4, <1>5, <1>6, <1>7, <1>8, <1>9, <1>10, <1>11 DEF SNext, Main

-----------------------------------------------------------------------------
LEMMA SInitInv == SInit => IInv
<1> SUFFICES ASSUME SInit PROVE IInv
  OBVIOUS
<1>1. FInv
  BY FInitInv DEF SInit
<1>2. RoleInv
  BY DEF SInit, RoleInv, DownIsEmpty, FileIsLeft, ClientOnlyAfterCrash
<1>3. AddingInv
  BY DEF SInit, AddingInv, AddingTypes, OneAdds, SourcesKnown, Holds, NotAdding
<1>4. DrawnType
  BY ImagesNat DEF SInit, DrawnType
<1> QED
  BY <1>1, <1>2, <1>3, <1>4 DEF IInv, StartAddsNone, SInit, Threads, NotAdding

(* A process that ends leaves nothing but the file, and that it is left. *)
LEMMA EndsKeep == ASSUME IInv, Ends PROVE RoleInv' /\ AddingInv'
<1>1. /\ main' = "down" /\ acc' = "off" /\ epoll' = {} /\ mutex' = "free"
      /\ adding' = [t \in Threads |-> NotAdding] /\ role' = role
      /\ socket' = (IF socket = "live" THEN "stale" ELSE socket)
      /\ left' = (left \/ socket # "none")
  BY DEF Ends
<1>2. RoleInv'
  <2>1. role = "client" => left
    BY DEF IInv, RoleInv, ClientOnlyAfterCrash
  <2> QED
    BY <1>1, <2>1 DEF RoleInv, DownIsEmpty, FileIsLeft, ClientOnlyAfterCrash
<1>3. AddingInv'
  BY <1>1 DEF AddingInv, AddingTypes, OneAdds, SourcesKnown, Holds, NotAdding
<1> QED
  BY <1>2, <1>3

LEMMA StartKeeps == ASSUME IInv, Start PROVE RoleInv' /\ AddingInv'
<1>1. /\ main = "down" /\ main' = "start"
      /\ role' = (IF socket = "none" THEN "drm" ELSE "client")
      /\ UNCHANGED <<socket, adding, mutex, epoll, sources, fdsrc, left>>
  BY DEF Start, listening
<1>2. (socket = "none" \/ left) /\ epoll = {} /\ adding = [t \in Threads |-> NotAdding]
  BY <1>1 DEF IInv, RoleInv, FileIsLeft, DownIsEmpty
<1>3. RoleInv'
  BY <1>1, <1>2 DEF RoleInv, DownIsEmpty, FileIsLeft, ClientOnlyAfterCrash
<1>4. AddingInv'
  BY <1>1, <1>2 DEF AddingInv, AddingTypes, OneAdds, SourcesKnown, Holds, NotAdding
<1> QED
  BY <1>3, <1>4

(* A goroutine begins to add a source. *)
LEMMA BeginAdding ==
    ASSUME AddingInv, NEW t \in Threads, NEW s, adding[t].at = "no",
           adding' = [adding EXCEPT ![t] = Adds(t, s)],
           UNCHANGED <<role, mutex, epoll, sources, fdsrc>>
    PROVE  AddingInv'
<1>1. /\ AddingTypes'
      /\ \A u \in Threads \ {t} : adding'[u] = adding[u]
      /\ adding'[t].at = IF role = "drm" THEN "lock" ELSE "epoll"
  BY DEF AddingInv, AddingTypes, Adds
<1>2. OneAdds'
  BY <1>1 DEF AddingInv, OneAdds, Holds
<1>3. SourcesKnown'
  BY <1>1 DEF AddingInv, SourcesKnown
<1> QED
  BY <1>1, <1>2, <1>3 DEF AddingInv

LEMMA LockKeeps == ASSUME AddingInv, NEW t \in Threads, Lock(t) PROVE AddingInv'
<1>1. /\ AddingTypes'
      /\ \A u \in Threads \ {t} : adding'[u] = adding[u]
      /\ adding'[t].at = "epoll" /\ adding[t].at = "lock"
      /\ mutex = "free" /\ mutex' = t
      /\ UNCHANGED <<role, epoll, sources, fdsrc>>
  BY DEF AddingInv, AddingTypes, Lock, listening
<1>2. role = "drm" => \A u \in Threads : ~Holds(u)
  BY <1>1 DEF AddingInv, OneAdds, Threads
<1>3. OneAdds'
  BY <1>1, <1>2 DEF OneAdds, Holds
<1>4. SourcesKnown'
  BY <1>1 DEF AddingInv, SourcesKnown
<1> QED
  BY <1>1, <1>3, <1>4 DEF AddingInv

LEMMA WatchKeeps == ASSUME AddingInv, NEW t \in Threads, Watch(t) PROVE AddingInv'
<1>1. /\ AddingTypes'
      /\ \A u \in Threads \ {t} : adding'[u] = adding[u]
      /\ adding'[t].at = "store" /\ adding'[t].seen = sources /\ adding'[t].src = adding[t].src
      /\ adding[t].at = "epoll" /\ epoll' = epoll \cup {adding[t].src}
      /\ UNCHANGED <<role, mutex, sources, fdsrc>>
  BY DEF AddingInv, AddingTypes, Watch
<1>2. OneAdds'
  BY <1>1 DEF AddingInv, OneAdds, Holds
<1>3. SourcesKnown'
  BY <1>1 DEF AddingInv, SourcesKnown
<1> QED
  BY <1>1, <1>2, <1>3 DEF AddingInv

(* Nobody else has the mutex, so that the slice is the one that was read. *)
LEMMA StoreKeeps == ASSUME AddingInv, NEW t \in Threads, Store(t) PROVE AddingInv'
<1>1. /\ AddingTypes'
      /\ \A u \in Threads \ {t} : adding'[u] = adding[u]
      /\ adding[t].at = "store" /\ adding'[t].at = "no"
      /\ sources' = adding[t].seen \cup {adding[t].src} /\ fdsrc' = fdsrc \cup {adding[t].src}
      /\ UNCHANGED <<role, epoll>>
  BY DEF AddingInv, AddingTypes, Store, NotAdding
<1>2. role = "drm" =>
         adding[t].seen = sources /\ \A u \in Threads \ {t} : ~Holds(u)
  BY <1>1 DEF AddingInv, OneAdds, Holds
<1>3. OneAdds'
  BY <1>1, <1>2 DEF OneAdds, Holds
<1>4. SourcesKnown'
  BY <1>1, <1>2 DEF AddingInv, SourcesKnown, Holds
<1> QED
  BY <1>1, <1>3, <1>4 DEF AddingInv

LEMMA SameAdding ==
    ASSUME AddingInv, UNCHANGED <<adding, role, mutex, epoll, sources, fdsrc>>
    PROVE  AddingInv'
  BY DEF AddingInv, AddingTypes, OneAdds, SourcesKnown, Holds

(* What runs is not down. *)
LEMMA SameRole ==
    ASSUME RoleInv, main # "down", main' # "down", UNCHANGED <<role, left>>
    PROVE  RoleInv'
  BY DEF RoleInv, DownIsEmpty, FileIsLeft, ClientOnlyAfterCrash

LEMMA SStep == ASSUME IInv, [SNext]_svars PROVE RoleInv' /\ AddingInv'
<1> /\ RoleInv /\ AddingInv /\ FTypes
  BY DEF IInv, FInv
<1>1. CASE UNCHANGED svars
  BY <1>1, SameAdding DEF svars, server, RoleInv, DownIsEmpty, FileIsLeft, ClientOnlyAfterCrash
<1>2. ASSUME Exit \/ OpenFails \/ Recover \/ PollCollides \/ ConnectFails \/ StoresCollide
             \/ (\E t \in Threads : WatchNil(t))
      PROVE  RoleInv' /\ AddingInv'
  <2>1. Ends
    BY <1>2 DEF Exit, OpenFails, Recover, PollCollides, ConnectFails, StoresCollide, WatchNil
  <2> QED
    BY <2>1, EndsKeep
<1>3. CASE CardAppears \/ \E c \in Clients : Launch(c) \/ Ask(c) \/ Draw(c) \/ Follow(c) \/ Miss(c)
  <2>1. UNCHANGED <<socket, role, main, acc, adding, mutex, epoll, sources, fdsrc, left>>
    BY <1>3 DEF CardAppears, Launch, Ask, Draw, Follow, Miss, listening
  <2> QED
    BY <2>1, SameAdding DEF RoleInv, DownIsEmpty, FileIsLeft, ClientOnlyAfterCrash
<1>4. CASE Remove \/ Bind \/ BindFails \/ \E s \in Sources : Accept(s)
  <2>1. acc # "off" /\ main' = main /\ UNCHANGED <<role, left>>
    BY <1>4 DEF Remove, Bind, BindFails, Accept
  <2>2. main # "down"
    BY <2>1 DEF RoleInv, DownIsEmpty
  <2>3. AddingInv'
    <3>1. CASE Remove \/ Bind \/ BindFails
      BY <3>1, SameAdding DEF Remove, Bind, BindFails, listening
    <3>2. CASE \E s \in Sources : Accept(s)
      BY <3>2, BeginAdding DEF Accept, Threads, listening
    <3> QED
      BY <1>4, <3>1, <3>2
  <2> QED
    BY <2>1, <2>2, <2>3, SameRole
<1>5. ASSUME Open \/ Construct \/ Tile \/ Draws \/ Poll \/ Panic \/ Connect PROVE RoleInv' /\ AddingInv'
  <2>1. main # "down" /\ main' # "down" /\ UNCHANGED <<role, left>>
    BY <1>5 DEF Open, Construct, Tile, Draws, Poll, Panic, Connect, server
  <2>2. CASE Construct \/ Tile \/ Draws \/ Poll \/ Panic
    <3>1. UNCHANGED <<adding, role, mutex, epoll, sources, fdsrc>>
      BY <2>2 DEF Construct, Tile, Draws, Poll, Panic, server, listening
    <3> QED
      BY <2>1, <3>1, SameRole, SameAdding
  <2>3. CASE Open \/ Connect
    <3>1. adding["main"].at = "no"
      BY <2>3 DEF IInv, StartAddsNone, Open, Connect
    <3> QED
      BY <2>1, <2>3, <3>1, SameRole, BeginAdding DEF Open, Connect, Threads
  <2> QED
    BY <1>5, <2>2, <2>3
<1>6. ASSUME NEW t \in Threads, Lock(t) \/ Watch(t) \/ Store(t) PROVE RoleInv' /\ AddingInv'
  <2>1. main # "down"
    BY <1>6 DEF Lock, Watch, Store, RoleInv, DownIsEmpty, NotAdding
  <2>2. UNCHANGED <<main, role, left>>
    BY <1>6 DEF Lock, Watch, Store
  <2> QED
    BY <1>6, <2>1, <2>2, SameRole, LockKeeps, WatchKeeps, StoreKeeps
<1>7. CASE Start
  BY <1>7, StartKeeps
<1> QED
  BY <1>1, <1>2, <1>3, <1>4, <1>5, <1>6, <1>7 DEF SNext, Main, Accepting, Adding

LEMMA StartAddsNoneStep == ASSUME IInv, [SNext]_svars PROVE StartAddsNone'
<1> StartAddsNone /\ AddingTypes
  BY DEF IInv, AddingInv
<1>1. CASE UNCHANGED svars
  BY <1>1 DEF svars, server, StartAddsNone
<1>2. ASSUME Ends PROVE StartAddsNone'
  BY <1>2 DEF Ends, StartAddsNone, NotAdding, Threads
<1>3. ASSUME Exit \/ OpenFails \/ Recover \/ PollCollides \/ ConnectFails \/ StoresCollide
             \/ (\E t \in Threads : WatchNil(t))
      PROVE  StartAddsNone'
  BY <1>2, <1>3 DEF Exit, OpenFails, Recover, PollCollides, ConnectFails, StoresCollide, WatchNil
<1>4. CASE CardAppears \/ Remove \/ Bind \/ BindFails
         \/ \E c \in Clients : Launch(c) \/ Ask(c) \/ Draw(c) \/ Follow(c) \/ Miss(c)
  BY <1>4 DEF CardAppears, Remove, Bind, BindFails, Launch, Ask, Draw, Follow, Miss, StartAddsNone
<1>5. CASE \E s \in Sources : Accept(s)
  BY <1>5 DEF Accept, StartAddsNone, AddingTypes, Threads
<1>6. CASE Open \/ Construct \/ Tile \/ Draws \/ Poll \/ Panic \/ Connect
  <2>1. main' \notin {"down", "start"}
    BY <1>6 DEF Open, Construct, Tile, Draws, Poll, Panic, Connect, server
  <2> QED
    BY <2>1 DEF StartAddsNone
<1>7. CASE Start
  <2>1. adding["main"].at = "no"
    BY <1>7 DEF Start, StartAddsNone
  <2> QED
    BY <1>7, <2>1 DEF Start, StartAddsNone
<1>8. ASSUME NEW t \in Threads, Lock(t) \/ Watch(t) \/ Store(t) PROVE StartAddsNone'
  <2>1. adding[t].at # "no" /\ main' = main
    BY <1>8 DEF Lock, Watch, Store
  <2>2. CASE t = "main"
    BY <2>1, <2>2 DEF StartAddsNone
  <2>3. CASE t # "main"
    <3>1. adding'["main"] = adding["main"]
      BY <1>8, <2>3 DEF Lock, Watch, Store, AddingTypes, Threads
    <3> QED
      BY <2>1, <3>1 DEF StartAddsNone
  <2> QED
    BY <2>2, <2>3
<1> QED
  BY <1>1, <1>3, <1>4, <1>5, <1>6, <1>7, <1>8 DEF SNext, Main, Accepting, Adding

LEMMA DrawnStep == ASSUME IInv, [SNext]_svars PROVE DrawnType'
<1> DrawnType
  BY DEF IInv
<1>1. CASE UNCHANGED drawn
  BY <1>1 DEF DrawnType
<1>2. CASE Ends
  BY <1>2, ImagesNat DEF Ends, DrawnType
<1>3. CASE \E c \in Clients : Draw(c)
  BY <1>3, ImagesNat DEF Draw, DrawnType
<1>4. Ends \/ UNCHANGED drawn \/ \E c \in Clients : Draw(c)
  <2>1. CASE Main
    BY <2>1 DEF Main, Open, OpenFails, Construct, Tile, Draws, Poll, Handled, Panic, Recover,
                PollCollides, Connect, ConnectFails, Exit, programs, server
  <2>2. CASE Accepting \/ \E t \in Threads : Adding(t)
    BY <2>2 DEF Accepting, Remove, Bind, BindFails, Accept, Adding, Lock, Watch, WatchNil, Store,
                Exit, programs
  <2>3. CASE UNCHANGED svars \/ Start \/ CardAppears \/ StoresCollide
    BY <2>3 DEF svars, server, programs, Start, CardAppears, StoresCollide, Exit
  <2>4. CASE \E c \in Clients : Launch(c) \/ Ask(c) \/ Follow(c) \/ Miss(c)
    BY <2>4 DEF Launch, Ask, Follow, Miss
  <2> QED
    BY <2>1, <2>2, <2>3, <2>4 DEF SNext
<1> QED
  BY <1>1, <1>2, <1>3, <1>4

LEMMA IInvStep == ASSUME IInv, [SNext]_svars PROVE IInv'
<1>1. FInv'
  BY StepDraws, FStep DEF IInv, FInv
<1> QED
  BY <1>1, SStep, StartAddsNoneStep, DrawnStep DEF IInv

THEOREM ServerInvariant == SSpec => []IInv
  BY SInitInv, IInvStep, PTL DEF SSpec

(* The server implements Frames: whatever its goroutines and clients do, it     *)
(* draws and shows as Run does.                                              *)
THEOREM ServerDrawsFrames == SSpec => FSpec
<1>1. SInit => FInit
  BY DEF SInit
<1>2. IInv /\ [SNext]_svars => [FNext]_frames
  BY StepDraws DEF IInv, FInv
<1> QED
  BY <1>1, <1>2, ServerInvariant, PTL DEF SSpec, FSpec

(* drmkms.Backend.Update and Workspace.Draw: what is on the screen is whole. *)
THEOREM ServerShowsWhole == SSpec => []ShownIsWhole
  BY ServerDrawsFrames, FramesAreWhole, PTL

(* app.init: only a server whose predecessor left its file becomes a client. *)
THEOREM ServerRole == SSpec => []ClientOnlyAfterCrash
<1>1. IInv => ClientOnlyAfterCrash
  BY DEF IInv, RoleInv
<1> QED
  BY ServerInvariant, <1>1, PTL

(* drmkms.Backend.Listen: no source is lost between the goroutines. *)
THEOREM ServerKeepsSources == SSpec => []SourcesKept
<1>1. IInv => SourcesKept
  BY DEF IInv, AddingInv, OneAdds, SourcesKnown, SourcesKept, Holds
<1> QED
  BY ServerInvariant, <1>1, PTL
=============================================================================
