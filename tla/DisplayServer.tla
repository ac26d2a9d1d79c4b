---------------------------- MODULE DisplayServer ----------------------------
(***************************************************************************)
(* The display server as a process (service/display/main.go) that is started *)
(* again whenever it ends: package init chooses its role by the socket's file *)
(* (pkg/graphics/app), one goroutine listens and accepts (pkg/connect), and   *)
(* the main one polls (pkg/kernel/poll) and draws, as Frames says.            *)
(*                                                                          *)
(* The file outlives the process.  A server that finds it takes itself for a *)
(* client.                                                                  *)
(***************************************************************************)
EXTENDS Frames, FiniteSets

CONSTANTS
    Clients,        \* programs that ask for a window, which is named like them
    Console,        \* the one that the desktop starts
    Keyboard,       \* the input device
    Self,           \* the connection of a server that takes itself for a client
    NoSource        \* no source

ASSUME ConsoleIsClient == Console \in Clients
ASSUME WindowsAreClients == Windows = Clients
ASSUME SourcesDiffer == /\ Keyboard # Self /\ Keyboard # NoSource /\ Self # NoSource
                        /\ {Keyboard, Self, NoSource} \cap Clients = {}

Threads == {"main", "acc"}
Sources == Clients \cup {Keyboard, Self}

VARIABLES
    socket,         \* the file: "none", "live", or "stale" when nobody listens
    role,           \* the backend: "drm" or "client"
    main,           \* the main goroutine
    acc,            \* the accepting one: "off", "remove", "bind", "accept" or "failed"
    adding,         \* what each goroutine adds to the listener, and how far it is
    mutex,          \* Backend.mutex of the DRM backend: who holds it, or "free"
    listener,       \* Backend.listener is not nil
    epoll, sources, fdsrc,  \* the listener: the kernel's set, the slice, the map
    backlog,        \* connections that wait for Accept
    client,         \* "off", "started", "asked", "refused", "running" or "ended"
    drawn,          \* how much each client has drawn
    sight,          \* whether it draws into the image that its window shows, see below
    damage,         \* clients whose Damage is on its way
    card,           \* the card's device exists
    left            \* history: a process ended and its file stayed

programs == <<client, drawn, sight, damage>>
server == <<socket, role, main, acc, adding, mutex, listener, epoll, sources, fdsrc,
            backlog, programs, card, left>>
svars == <<frames, server>>

listening == <<listener, epoll, sources, fdsrc>>
NotAdding == [at |-> "no", src |-> NoSource, seen |-> {}]

SInit ==
    /\ FInit
    /\ socket = "none" /\ role = "drm" /\ main = "down" /\ acc = "off"
    /\ adding = [t \in Threads |-> NotAdding] /\ mutex = "free"
    /\ listener = FALSE /\ epoll = {} /\ sources = {} /\ fdsrc = {}
    /\ backlog = {} /\ client = [c \in Clients |-> "off"] /\ damage = {}
    /\ drawn = [c \in Clients |-> 0] /\ sight = [c \in Clients |-> "shown"]
    /\ card = FALSE /\ left = FALSE

-----------------------------------------------------------------------------
(* Mutant of Start: the role is chosen once the other goroutine listens, too. *)
StartLate ==
    /\ main = "down"
    /\ main' = "start" /\ acc' = "accept" /\ socket' = "live" /\ role' = "client"
    /\ UNCHANGED <<frames, adding, mutex, listening, backlog, programs, card, left>>

(* The service manager starts the server; its packages' init comes before main *)
(* and the goroutine that listens.                                           *)
Start ==
    /\ main = "down"
    /\ main' = "start" /\ acc' = "remove"
    /\ role' = IF socket = "none" THEN "drm" ELSE "client"
    /\ UNCHANGED <<frames, socket, adding, mutex, listening, backlog, programs, card, left>>

(* The process ends: os.Exit, log.Fatal, a panic of a goroutine that recovers  *)
(* nothing, a fatal error of the runtime.  Its connections are closed, and     *)
(* nothing removes the file.                                                 *)
Ends ==
    /\ Stop
    /\ main' = "down" /\ acc' = "off"
    /\ socket' = IF socket = "live" THEN "stale" ELSE socket
    /\ left' = (left \/ socket # "none")
    /\ adding' = [t \in Threads |-> NotAdding] /\ mutex' = "free"
    /\ listener' = FALSE /\ epoll' = {} /\ sources' = {} /\ fdsrc' = {}
    /\ backlog' = {} /\ damage' = {}
    /\ client' = [c \in Clients |->
           IF client[c] \in {"asked", "refused", "running"} THEN "ended" ELSE client[c]]
    /\ drawn' = [c \in Clients |-> 0] /\ sight' = [c \in Clients |-> "shown"]
    /\ UNCHANGED <<role, card>>
Exit == Ends /\ UNCHANGED faults

-----------------------------------------------------------------------------
(* Listener.Add, and the Backend.Listen around it: the DRM backend locks, the   *)
(* client's does not.                                                        *)
Adds(t, s) == [at |-> IF role = "drm" THEN "lock" ELSE "epoll", src |-> s, seen |-> {}]

(* Mutant of Lock: the backend has no mutex. *)
LockNever(t) ==
    /\ adding[t].at = "lock"
    /\ adding' = [adding EXCEPT ![t].at = "epoll"]
    /\ UNCHANGED <<frames, mutex, socket, role, main, acc, listening, backlog, programs, card, left>>

Lock(t) ==
    /\ adding[t].at = "lock"
    /\ mutex = "free" /\ mutex' = t
    /\ adding' = [adding EXCEPT ![t].at = "epoll"]
    /\ UNCHANGED <<frames, socket, role, main, acc, listening, backlog, programs, card, left>>

(* The kernel watches the source, and the slice is read that append extends.   *)
Watch(t) ==
    /\ adding[t].at = "epoll" /\ listener
    /\ epoll' = epoll \cup {adding[t].src}
    /\ adding' = [adding EXCEPT ![t] = [at |-> "store", src |-> @.src, seen |-> sources]]
    /\ UNCHANGED <<frames, mutex, socket, role, main, acc, listener, sources, fdsrc,
                   backlog, programs, card, left>>

(* A listener that is nil: the goroutine panics. *)
WatchNil(t) == adding[t].at = "epoll" /\ ~listener /\ Exit

(* Mutant of Store: the map is not written. *)
StoreSlice(t) ==
    /\ adding[t].at = "store"
    /\ sources' = adding[t].seen \cup {adding[t].src}
    /\ adding' = [adding EXCEPT ![t] = NotAdding]
    /\ mutex' = IF mutex = t THEN "free" ELSE mutex
    /\ UNCHANGED <<frames, socket, role, main, acc, listener, epoll, fdsrc, backlog, programs, card, left>>

(* The slice and the map are written. *)
Store(t) ==
    /\ adding[t].at = "store"
    /\ sources' = adding[t].seen \cup {adding[t].src}
    /\ fdsrc' = fdsrc \cup {adding[t].src}
    /\ adding' = [adding EXCEPT ![t] = NotAdding]
    /\ mutex' = IF mutex = t THEN "free" ELSE mutex
    /\ UNCHANGED <<frames, socket, role, main, acc, listener, epoll, backlog, programs, card, left>>

(* Two goroutines write the map: the runtime may notice, and ends the process. *)
StoresCollide == (\A t \in Threads : adding[t].at = "store") /\ Exit

-----------------------------------------------------------------------------
(* connect.Listen. *)
Remove ==
    /\ acc = "remove" /\ acc' = "bind"
    /\ socket' = "none"
    /\ UNCHANGED <<frames, role, main, adding, mutex, listening, backlog, programs, card, left>>

Bind ==
    /\ acc = "bind" /\ acc' = "accept"
    /\ socket' = "live"
    /\ UNCHANGED <<frames, role, main, adding, mutex, listening, backlog, programs, card, left>>

(* main takes the error of Listen for success: the server goes on without. *)
BindFails ==
    /\ acc = "bind" /\ acc' = "failed"
    /\ UNCHANGED <<frames, socket, role, main, adding, mutex, listening, backlog, programs, card, left>>

(* Accept, and Server.Handle, which returns when the connection is added. *)
Accept(s) ==
    /\ acc = "accept" /\ adding["acc"].at = "no"
    /\ s \in backlog /\ backlog' = backlog \ {s}
    /\ adding' = [adding EXCEPT !["acc"] = Adds("acc", s)]
    /\ UNCHANGED <<frames, socket, role, main, acc, mutex, listening, programs, card, left>>

-----------------------------------------------------------------------------
(* The main goroutine.  The DRM backend's Init: the card, the listener, and    *)
(* then the keyboard; it fails without a card, or if the card refuses.        *)
Open ==
    /\ main = "start" /\ role = "drm" /\ card
    /\ Setup
    /\ main' = "devices" /\ listener' = TRUE
    /\ adding' = [adding EXCEPT !["main"] = Adds("main", Keyboard)]
    /\ UNCHANGED <<socket, role, acc, mutex, epoll, sources, fdsrc, backlog, programs, card, left>>

OpenFails ==
    /\ main = "start" /\ role = "drm"
    /\ \/ ~card /\ Exit
       \/ Ends /\ faults > 0 /\ faults' = faults - 1

(* Construct starts the console, and Run's loop begins.  (A console that an     *)
(* earlier server started and that is about to connect stands for both.)     *)
Construct ==
    /\ main = "devices" /\ adding["main"].at = "no"
    /\ Begin
    /\ main' = "loop"
    /\ client' = [client EXCEPT ![Console] = IF @ \in {"off", "ended"} THEN "started" ELSE @]
    /\ UNCHANGED <<socket, role, acc, adding, mutex, listening, backlog, drawn, sight, damage, card, left>>

(* A client is told of the new image of its window, and draws into the old one   *)
(* until it reads that: "told".  Further ones may come before, "again", of      *)
(* which an earlier one, "missed", or the last, "lost", is dropped when it came  *)
(* with another message (see DisplayClients).                                *)
Told(s) ==
    CASE s \in {"shown", "blank"} -> "told"
      [] s \in {"told", "again"} -> "again"
      [] s \in {"missed", "lost"} -> "missed"
Resized(cs) == [c \in Clients |-> IF c \in cs THEN Told(sight[c]) ELSE sight[c]]

Draws ==
    /\ main = "loop"
    /\ Paint \/ Flip \/ FlipFails
    /\ UNCHANGED server

Tile ==
    /\ main = "loop"
    /\ \E resized \in SUBSET misfits : Fill(resized) /\ sight' = Resized(resized)
    /\ UNCHANGED <<socket, role, main, acc, adding, mutex, listening, backlog, client, drawn,
                   damage, card, left>>

(* What the kernel has to report: a key, a request, a Damage. *)
Ready == {s \in epoll : s \in damage \/ s = Keyboard
                        \/ (s \in Clients /\ client[s] = "asked")}

(* What was asked for becomes a window, whose client is told of the image it has *)
(* by then, or shared memory is refused, and the client hears nothing.  Only   *)
(* another that comes or goes in the same poll may resize it after that.      *)
Handled(new, refused, gone, resized, damaged) ==
    /\ Events(new, gone, resized, damaged)
    /\ resized \cap new # {} => Cardinality(new \cup gone) > 1
    /\ client' = [c \in Clients |-> IF c \in new THEN "running"
                                   ELSE IF c \in refused THEN "refused" ELSE client[c]]
    /\ sight' = Resized(resized)
    /\ UNCHANGED drawn

(* EpollWait is given as much room as there are sources; what it reports and    *)
(* is in the map is read.                                                    *)
Room(got) == Cardinality(got) <= Cardinality(sources)

Poll ==
    \E got \in SUBSET Ready : \E key \in {"none", "quit"} :
        LET read == got \cap fdsrc
            asked == {c \in read \cap Clients : client[c] = "asked"}
        IN  /\ main = "loop" /\ Room(got)
            /\ Ready \ {Keyboard} \subseteq got \/ Cardinality(got) = Cardinality(sources)
            /\ (key = "quit") => (Keyboard \in read /\ windows # {})
            /\ \E refused \in SUBSET asked :
               \E gone \in {g \in SUBSET windows : Cardinality(g) = IF key = "quit" THEN 1 ELSE 0} :
               \E resized \in SUBSET (windows \cup asked) :
                  Handled(asked \ refused, refused, gone, resized, read \cap damage)
            /\ damage' = damage \ read
            /\ UNCHANGED <<socket, role, main, acc, adding, mutex, listening, backlog, card, left>>

(* Alt and S without a window. *)
Panic ==
    /\ main = "loop" /\ Keyboard \in fdsrc /\ windows = {}
    /\ Error
    /\ main' = "recover"
    /\ UNCHANGED <<socket, role, acc, adding, mutex, listening, backlog, programs, card, left>>

Recover == main = "recover" /\ Exit

(* The map is read while the other goroutine writes it. *)
PollCollides ==
    /\ main = "loop" /\ pc = "poll" /\ adding["acc"].at = "store" /\ Ready # {} /\ sources # {}
    /\ Exit

(* The client's backend: it connects, perhaps to itself, and waits for a reply. *)
Connect ==
    /\ main = "start" /\ role = "client" /\ socket = "live"
    /\ main' = "wait" /\ listener' = TRUE
    /\ backlog' = backlog \cup {Self}
    /\ adding' = [adding EXCEPT !["main"] = Adds("main", Self)]
    /\ UNCHANGED <<frames, socket, role, acc, mutex, epoll, sources, fdsrc, programs, card, left>>

ConnectFails == main = "start" /\ role = "client" /\ socket # "live" /\ Exit

-----------------------------------------------------------------------------
(* The world: udev makes the card's device, users start programs, which look   *)
(* for the socket, ask for a window and draw.                                *)
CardAppears ==
    /\ ~card /\ card' = TRUE
    /\ UNCHANGED <<frames, socket, role, main, acc, adding, mutex, listening, backlog, programs, left>>

Launch(c) ==
    /\ c # Console /\ client[c] \in {"off", "ended"}
    /\ client' = [client EXCEPT ![c] = "started"]
    /\ UNCHANGED <<frames, socket, role, main, acc, adding, mutex, listening, backlog, drawn, sight, damage, card, left>>

(* Without a live socket the program ends: it cannot have the card, or it is    *)
(* refused.                                                                  *)
Ask(c) ==
    /\ client[c] = "started"
    /\ IF socket = "live"
       THEN client' = [client EXCEPT ![c] = "asked"] /\ backlog' = backlog \cup {c}
       ELSE client' = [client EXCEPT ![c] = "ended"] /\ UNCHANGED backlog
    /\ UNCHANGED <<frames, socket, role, main, acc, adding, mutex, listening, drawn, sight, damage, card, left>>

Draw(c) ==
    /\ client[c] = "running" /\ c \in windows
    /\ drawn[c] < MaxImages /\ drawn' = [drawn EXCEPT ![c] = @ + 1]
    /\ IF sight[c] \in {"shown", "blank"}
       THEN Write(c, drawn'[c]) /\ sight' = [sight EXCEPT ![c] = "shown"]
       ELSE UNCHANGED <<frames, sight>>
    /\ damage' = damage \cup {c}
    /\ UNCHANGED <<socket, role, main, acc, adding, mutex, listening, backlog, client, card, left>>

(* A client reads of its last image, whose size is another one, so that it draws *)
(* everything anew; unless it missed one before, and the size is what it was.   *)
Follow(c) ==
    /\ client[c] = "running" /\ c \in windows
    /\ \/ /\ sight[c] \in {"told", "again", "missed"}
          /\ Write(c, drawn[c])
          /\ sight' = [sight EXCEPT ![c] = "shown"] /\ damage' = damage \cup {c}
       \/ /\ sight[c] = "missed"
          /\ sight' = [sight EXCEPT ![c] = "blank"] /\ UNCHANGED <<frames, damage>>
    /\ UNCHANGED <<socket, role, main, acc, adding, mutex, listening, backlog, client, drawn, card, left>>

(* It misses one, or the last. *)
Miss(c) ==
    /\ client[c] = "running" /\ c \in windows
    /\ \/ sight[c] = "again" /\ sight' = [sight EXCEPT ![c] = "missed"]
       \/ sight[c] \in {"told", "again", "missed"} /\ sight' = [sight EXCEPT ![c] = "lost"]
    /\ UNCHANGED <<frames, socket, role, main, acc, adding, mutex, listening, backlog, client, drawn,
                   damage, card, left>>

Main == Open \/ OpenFails \/ Construct \/ Tile \/ Draws \/ Poll \/ Panic \/ Recover \/ PollCollides
          \/ Connect \/ ConnectFails
Accepting == Remove \/ Bind \/ BindFails \/ \E s \in Sources : Accept(s)
Adding(t) == Lock(t) \/ Watch(t) \/ WatchNil(t) \/ Store(t)

SNext ==
    \/ Start \/ Main \/ Accepting \/ CardAppears \/ StoresCollide
    \/ \E t \in Threads : Adding(t)
    \/ \E c \in Clients : Launch(c) \/ Ask(c) \/ Draw(c) \/ Follow(c) \/ Miss(c)

SSpec == SInit /\ [][SNext]_svars

(* The manager restarts the server, whose goroutines go on, and clients read.   *)
(* Nobody need type, start programs or draw.                                 *)
SFairSpec ==
    /\ SSpec
    /\ WF_svars(Start) /\ WF_svars(Open \/ OpenFails \/ Construct \/ Tile \/ Draws \/ Poll)
    /\ WF_svars(Recover) /\ WF_svars(Connect \/ ConnectFails)
    /\ WF_svars(Accepting) /\ \A t \in Threads : WF_svars(Adding(t))
    /\ \A c \in Clients : WF_svars(Follow(c) \/ Miss(c))

-----------------------------------------------------------------------------
(* A server takes itself for a client only after an earlier one went down and  *)
(* left its file: never at the first start, however the goroutines run.       *)
ClientOnlyAfterCrash == role = "client" => left

(* No source is lost between the goroutines that add them: what the kernel     *)
(* watches is in the slice, which makes room for its events, and in the map    *)
(* that it is looked up in, or about to be.                                  *)
SourcesKept ==
    role = "drm" => \A s \in epoll :
        \/ s \in sources \cap fdsrc
        \/ \E t \in Threads : adding[t].src = s /\ mutex = t

(* Who connected has its window on the screen in the end, with what it drew     *)
(* last, through restarts, new images and refusals of the card.  The exceptions: *)
(* the window was closed, the server went down or is a client that waits for    *)
(* itself; shared memory was refused for the window, and the client waits for   *)
(* ever; the client lost the message that names its last image and draws into   *)
(* another one, or missed one before, found the last one of the size it knew,   *)
(* and has drawn nothing since.                                              *)
Seen(c) == c \in windows /\ flipped /\ content[shown][c] = drawn[c]
Excused(c) ==
    \/ client[c] \in {"ended", "refused"} \/ role = "client"
    \/ client[c] = "running" /\ (c \notin windows \/ sight[c] \in {"lost", "blank"})
SeenInTheEnd ==
    \A c \in Clients : (client[c] \in {"asked", "running"}) ~> (Seen(c) \/ Excused(c))
=============================================================================
