---------------------------- MODULE DisplayClients ----------------------------
(***************************************************************************)
(* The desktop with its clients (pkg/graphics/backend/display) over their   *)
(* connections (pkg/connect): asking for a window, the answer, and the       *)
(* images that follow.                                                      *)
(*                                                                          *)
(* Receive makes a decoder for one message, which reads from the connection *)
(* what has come so far, a buffer at most, and is then dropped with all that *)
(* follows the message; the end of the buffer may cut a message in two.      *)
(*                                                                          *)
(* Damage is left out: Tile reports a change whenever there is a window, so   *)
(* that the server draws every window in every frame.                       *)
(***************************************************************************)
EXTENDS Desktop

CONSTANT Buffer     \* messages that the decoder's buffer holds

ASSUME BufferPositive == Buffer \in Nat \ {0}

VARIABLES
    phase,          \* "off", "asked", "waiting", "running" or "ended"; "left" if
                    \* it ended before the server read what it asks for
    img,            \* the image that a client draws into
    lost            \* history: clients that missed the last Resize they were sent

vars == <<desktop, phase, img, lost>>

SysInit ==
    /\ Init
    /\ phase = [c \in Clients |-> "off"]
    /\ img = [c \in Clients |-> NoImage]
    /\ lost = {}

Becomes(c, what) == phase' = [phase EXCEPT ![c] = what]

(* Backend.Init: connected, the client asks for a window and waits. *)
Ask(c) ==
    /\ server = "up" /\ phase[c] = "off"
    /\ Becomes(c, "asked")
    /\ UNCHANGED <<desktop, img, lost>>

(* The server reads and handles what a client asked for, be it gone by then. *)
Serve(c) ==
    /\ phase[c] \in {"asked", "left"}
    /\ Create(c) \/ CreateRefused(c)
    /\ Becomes(c, IF phase[c] = "asked" THEN "waiting" ELSE "ended")
    /\ UNCHANGED <<img, lost>>

-----------------------------------------------------------------------------
(* One Receive: n messages are in the decoder's buffer, of which it takes the  *)
(* first; if the buffer is full the next one may be cut.                     *)
Torn == Message("torn", NoImage)
Left(s, n, cut) == IF cut THEN <<Torn>> \o SubSeq(s, n + 2, Len(s)) ELSE SubSeq(s, n + 1, Len(s))
Cuttable(s, n) == n = Buffer /\ Len(s) > n

(* Whether c has missed its last Resize, after a Receive that took the first   *)
(* message and dropped the others up to the k-th.                            *)
Misses(s, k) == \E i \in 2..k : s[i].type = "Resize"
Missing(c, k) ==
    LET s == toClient[c]
        still == IF s[1].type = "Resize" THEN lost \ {c} ELSE lost
    IN  IF Misses(s, k) THEN still \cup {c} ELSE still

Receive(c) ==
    \E n \in 1..Buffer : \E cut \in BOOLEAN :
        /\ n <= Len(toClient[c]) /\ (cut => Cuttable(toClient[c], n))
        /\ toClient' = [toClient EXCEPT ![c] = Left(@, n, cut)]
        /\ lost' = Missing(c, IF cut THEN n + 1 ELSE n)

(* NewImageForKey finds the segment, since none is ever removed.  It fails     *)
(* where shared memory is refused, and may where the segment has another size. *)
Attach(c, im) ==
    /\ img' = [img EXCEPT ![c] = im]
    /\ UNCHANGED faults
Fails(im) ==
    \/ faults > 0 /\ faults' = faults - 1
    \/ UNCHANGED faults /\ im \notin segments

End(c) ==
    /\ Becomes(c, "ended")
    /\ open' = open \ {c}
    /\ toClient' = [toClient EXCEPT ![c] = <<>>]

(* Mutant of Reply: only Created is taken for the reply. *)
ReplyCreated(c) ==
    /\ phase[c] = "waiting" /\ toClient[c] # <<>>
    /\ Head(toClient[c]).type = "Created"
    /\ Receive(c)
    /\ Attach(c, Head(toClient[c]).image)
    /\ Becomes(c, "running")
    /\ UNCHANGED <<open, windows, active, win, keys, held, segments, mapped, serial, server>>

(* Send takes the next message for the reply, whichever it is: each kind that   *)
(* names an image serves.                                                    *)
Reply(c) ==
    /\ phase[c] = "waiting" /\ toClient[c] # <<>>
    /\ \/ /\ Receive(c)
          /\ Attach(c, Head(toClient[c]).image)
          /\ Becomes(c, "running")
          /\ UNCHANGED open
       \/ /\ Fails(Head(toClient[c]).image)
          /\ End(c)
          /\ UNCHANGED <<img, lost>>
    /\ UNCHANGED <<windows, active, win, keys, held, segments, mapped, serial, server>>

(* Mutant of Poll: no case for Resize. *)
PollPast(c) ==
    /\ phase[c] = "running" /\ toClient[c] # <<>>
    /\ Receive(c)
    /\ UNCHANGED <<phase, open, img, faults>>
    /\ UNCHANGED <<windows, active, win, keys, held, segments, mapped, serial, server>>

(* PollEvents: a Resize is followed, a failure to do so ends the client; any     *)
(* other message changes nothing here.                                       *)
Poll(c) ==
    /\ phase[c] = "running" /\ toClient[c] # <<>>
    /\ LET m == Head(toClient[c]) IN
       \/ /\ m.type = "Resize" /\ Receive(c) /\ Attach(c, m.image)
          /\ UNCHANGED <<phase, open>>
       \/ /\ m.type = "Resize" /\ Fails(m.image) /\ End(c)
          /\ UNCHANGED <<img, lost>>
       \/ /\ m.type # "Resize" /\ Receive(c)
          /\ UNCHANGED <<phase, open, img, faults>>
    /\ UNCHANGED <<windows, active, win, keys, held, segments, mapped, serial, server>>

(* A client is killed or closes. *)
Quit(c) ==
    /\ phase[c] \in {"asked", "waiting", "running"}
    /\ Becomes(c, IF phase[c] = "asked" THEN "left" ELSE "ended")
    /\ Close(c)
    /\ UNCHANGED <<img, lost>>

-----------------------------------------------------------------------------
SysNext ==
    \/ Frame /\ UNCHANGED <<phase, img, lost>>
    \/ \E k \in Keys : \E state \in {"Pressed", "Repeat", "Release"} :
          Type(k, state) /\ UNCHANGED <<phase, img, lost>>
    \/ \E c \in Clients : Ask(c) \/ Serve(c) \/ Reply(c) \/ Poll(c) \/ Quit(c)

SysSpec == SysInit /\ [][SysNext]_vars

(* The server's loop and the loops of the clients go on.  Nobody need start,    *)
(* end, or press a key.                                                      *)
Fairness ==
    /\ WF_vars(Frame /\ UNCHANGED <<phase, img, lost>>)
    /\ \A c \in Clients : WF_vars(Serve(c)) /\ WF_vars(Reply(c)) /\ WF_vars(Poll(c))

SysFairSpec == SysSpec /\ Fairness

-----------------------------------------------------------------------------
Told(c) == {i \in 1..Len(toClient[c]) : toClient[c][i].type = "Resize"}

(* A client draws into the image that its window shows, or will once it has     *)
(* read its messages, the last of which names that image, whoever opened,      *)
(* closed or resized windows meanwhile; the one exception is a client whose    *)
(* last Resize came in the same read as an earlier message, which Receive      *)
(* drops.                                                                    *)
DrawsWhatIsShown ==
    \A c \in Range(windows) \cap open :
        IF Told(c) # {} THEN toClient[c][Max(Told(c))].image = win[c].image
        ELSE phase[c] = "running" /\ c \notin lost => img[c].id = win[c].image.id

(* The reply to Create is one that names an image: no key typed for the new     *)
(* window, and no torn message, comes before.                                *)
ReplyNamesImage ==
    \A c \in Clients : phase[c] = "waiting" /\ toClient[c] # <<>>
        => Head(toClient[c]).type \in {"Created", "Resize"}

(* Who asks for a window gets one, unless shared memory was refused.  (Who was  *)
(* refused waits for ever: the server sends no error.)                       *)
AskedIsServed ==
    \A c \in Clients : (phase[c] = "asked") ~>
        (phase[c] \in {"running", "ended"} \/ faults < MaxFaults \/ server = "down")

(* A client comes to the end of its messages: it draws what is shown, or it     *)
(* has lost it.                                                              *)
CatchesUp ==
    \A c \in Clients : (phase[c] = "running") ~>
        \/ phase[c] = "ended" \/ c \notin Range(windows) \/ c \in lost
        \/ img[c].id = win[c].image.id
=============================================================================
