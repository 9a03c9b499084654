------------------------------ MODULE WebSocket ------------------------------
(***************************************************************************)
(* Two uxsp.transport.websocket.UXSPWebSocket objects, a client that       *)
(* initiates and a server that responds, over a WebSocket connection: it   *)
(* delivers frames in order until it drops and loses what is in flight.    *)
(* The client keeps its object over a reconnection; the server goes on     *)
(* with its object or makes a new one, and keeps the sessions it once      *)
(* established for handle_resume().                                        *)
(*                                                                         *)
(* One thread drives each object, and the sessions are in ordered mode,    *)
(* the default, so that a handler is one step; pong() calls decrypt() and  *)
(* encrypt() and is two.  Module Session has the threads, module Handshake *)
(* the clocks and replays that are left out here.  A PONG without session  *)
(* payload has no effect and is left out.                                  *)
(* Definitions named Bad... are plausible faults.                          *)
(***************************************************************************)
EXTENDS Integers, Sequences

CONSTANTS
  Initiator, Responder,
  Sid,          \* session ids, one for each start_handshake()
  NoSid,        \* None
  MaxMessages,  \* SessionConfig.max_messages
  MaxDrops,     \* bound on the number of reconnections
  MaxWire       \* an end calls nothing that sends while so many are under way

ASSUME EndsAssumption == Initiator # Responder
ASSUME SidAssumption == NoSid \notin Sid
ASSUME BoundAssumption == MaxMessages \in Nat \ {0} /\ MaxDrops \in Nat /\ MaxWire \in Nat

End == {Initiator, Responder}

Other(e) == IF e = Initiator THEN Responder ELSE Initiator

VARIABLES
  hs,        \* session id of _hs, of each end's object
  cur,       \* session id of _session
  answering, \* the end is inside pong()
  started,   \* session ids that start_handshake() has used
  known,     \* sessions the server's application may hand to handle_resume()
  state,     \* _state of the Session an end has of a handshake
  sendSeq,   \* its _send_seq
  recvSeq,   \* its _recv_seq
  wire,      \* frames on their way to an end
  drops,     \* reconnections so far
  accepted,  \* history: the numbers that decrypt() has accepted
  broken     \* history: <<e, s>> when a payload of s sealed for e was lost

objectVars == <<hs, cur, answering, started, known>>
sessionVars == <<state, sendSeq, recvSeq, accepted>>
vars == <<objectVars, sessionVars, wire, drops, broken>>

FrameType == {"HELLO", "ACK", "COMPLETE", "DATA", "PING", "PONG", "CLOSE",
              "RESUME", "RESUME_ACK"}

(* n: seq of a sealed payload, last_seq of RESUME and RESUME_ACK.          *)
Frame(type, s, n) == [type |-> type, sid |-> s, n |-> n]

Sealed(f) == f.type \in {"DATA", "PING", "PONG", "CLOSE"} /\ f.sid # NoSid

-----------------------------------------------------------------------------
(* The connection                                                          *)

(* The next frame of e is of this type, and e's thread is free.            *)
At(e, type) == ~answering[e] /\ wire[e] # << >> /\ Head(wire[e]).type = type

Pop(e) == wire' = [wire EXCEPT ![e] = Tail(@)]
Emit(e, f) == wire' = [wire EXCEPT ![Other(e)] = Append(@, f)]
PopAndEmit(e, f) ==
  wire' = [wire EXCEPT ![e] = Tail(@), ![Other(e)] = Append(@, f)]

(* The payloads under way in frames f, by receiver and session.            *)
Payloads(e) ==
  {<<e, wire[e][i].sid>> : i \in {j \in DOMAIN wire[e] : Sealed(wire[e][j])}}

Drop ==
  /\ drops < MaxDrops
  /\ \A e \in End : ~answering[e]
  /\ drops' = drops + 1
  /\ wire' = [e \in End |-> << >>]
  /\ broken' = broken \cup Payloads(Initiator) \cup Payloads(Responder)
  /\ \/ UNCHANGED <<hs, cur>>
     \/ /\ hs' = [hs EXCEPT ![Responder] = NoSid]
        /\ cur' = [cur EXCEPT ![Responder] = NoSid]
  /\ UNCHANGED <<answering, started, known, sessionVars>>

-----------------------------------------------------------------------------
(* The session under the object: Session.encrypt() and decrypt()           *)

(* Fault: an expired or revoked session goes on sending.                   *)
BadActive(e) == cur[e] # NoSid

Active(e) == cur[e] # NoSid /\ state[e][cur[e]] = "ACTIVE"

AfterMessage(e) ==
  LET s == cur[e]
  IN  IF sendSeq[e][s] + recvSeq[e][s] + 1 >= MaxMessages THEN "EXPIRED" ELSE "ACTIVE"

(* What encrypt() does to the session; left is the state it is left in.    *)
Encrypt(e, left) ==
  /\ Active(e)
  /\ sendSeq' = [sendSeq EXCEPT ![e][cur[e]] = @ + 1]
  /\ state' = [state EXCEPT ![e][cur[e]] = left]
  /\ UNCHANGED <<recvSeq, accepted>>

(* Fault: the number of the payload before.                                *)
BadSeal(e, type) == Frame(type, cur[e], sendSeq[e][cur[e]] - 1)

Seal(e, type) == Frame(type, cur[e], sendSeq[e][cur[e]])

(* Fault: a payload ahead of its turn opens as well.                       *)
BadOpens(e, f) ==
  Active(e) /\ Sealed(f) /\ f.sid = cur[e] /\ f.n >= recvSeq[e][cur[e]]

(* decrypt() returns: the session of e is the one f was sealed in, and f   *)
(* is the next payload of it.                                              *)
Opens(e, f) ==
  Active(e) /\ Sealed(f) /\ f.sid = cur[e] /\ f.n = recvSeq[e][cur[e]]

Accept(e, f) ==
  /\ recvSeq' = [recvSeq EXCEPT ![e][cur[e]] = @ + 1]
  /\ accepted' = [accepted EXCEPT ![e][cur[e]] = Append(@, f.n)]
  /\ UNCHANGED <<sendSeq, broken>>

(* The payload is gone without having been accepted.                       *)
Lose(e, f) ==
  /\ broken' = IF Sealed(f) THEN broken \cup {<<e, f.sid>>} ELSE broken
  /\ UNCHANGED <<sendSeq, recvSeq, accepted>>

Decrypt(e, f) ==
  \/ Opens(e, f) /\ Accept(e, f) /\ state' = [state EXCEPT ![e][cur[e]] = AfterMessage(e)]
  \/ ~Opens(e, f) /\ Lose(e, f) /\ UNCHANGED state

(* max_lifetime_seconds                                                    *)
Age(e, s) ==
  /\ state[e][s] = "ACTIVE"
  /\ state' = [state EXCEPT ![e][s] = "EXPIRED"]
  /\ UNCHANGED <<objectVars, sendSeq, recvSeq, accepted, wire, drops, broken>>

-----------------------------------------------------------------------------
(* Handshake                                                               *)

StartHandshake(s) ==
  /\ ~answering[Initiator]
  /\ s \notin started
  /\ started' = started \cup {s}
  /\ hs' = [hs EXCEPT ![Initiator] = s]
  /\ Emit(Initiator, Frame("HELLO", s, 0))
  /\ UNCHANGED <<cur, answering, known, sessionVars, drops, broken>>

(* Fault: the session serves before its COMPLETE has come.                 *)
BadHandleHello ==
  /\ At(Responder, "HELLO")
  /\ hs[Responder] = NoSid
  /\ LET s == Head(wire[Responder]).sid
     IN  /\ hs' = [hs EXCEPT ![Responder] = s]
         /\ cur' = [cur EXCEPT ![Responder] = s]
         /\ state' = [state EXCEPT ![Responder][s] = "ACTIVE"]
         /\ PopAndEmit(Responder, Frame("ACK", s, 0))
  /\ UNCHANGED <<answering, started, known, sendSeq, recvSeq, accepted, drops, broken>>

(* respond() marks the HELLO; one object serves one HELLO.                 *)
HandleHello ==
  /\ At(Responder, "HELLO")
  /\ hs[Responder] = NoSid
  /\ LET s == Head(wire[Responder]).sid
     IN  /\ state[Responder][s] = "NONE"
         /\ hs' = [hs EXCEPT ![Responder] = s]
         /\ state' = [state EXCEPT ![Responder][s] = "ACTIVE"]
         /\ PopAndEmit(Responder, Frame("ACK", s, 0))
  /\ UNCHANGED <<cur, answering, started, known, sendSeq, recvSeq, accepted, drops, broken>>

(* The ACK must answer the handshake of _hs; complete() marks it, so that  *)
(* it makes one session.                                                   *)
CompleteHandshake ==
  /\ At(Initiator, "ACK")
  /\ LET s == Head(wire[Initiator]).sid
     IN  /\ hs[Initiator] = s
         /\ state[Initiator][s] = "NONE"
         /\ state' = [state EXCEPT ![Initiator][s] = "ACTIVE"]
         /\ cur' = [cur EXCEPT ![Initiator] = s]
         /\ PopAndEmit(Initiator, Frame("COMPLETE", s, 0))
  /\ UNCHANGED <<hs, answering, started, known, sendSeq, recvSeq, accepted, drops, broken>>

(* The limiter, the age of the message, or the state of _hs.               *)
RefuseHandshake(e) ==
  /\ At(e, "HELLO") \/ At(e, "ACK")
  /\ Pop(e)
  /\ UNCHANGED <<objectVars, sessionVars, drops, broken>>

Completes(s) == hs[Responder] = s /\ cur[Responder] = NoSid

HandleComplete ==
  /\ At(Responder, "COMPLETE")
  /\ LET s == Head(wire[Responder]).sid
     IN  \/ /\ Completes(s)
            /\ cur' = [cur EXCEPT ![Responder] = s]
            /\ known' = known \cup {s}
         \/ ~Completes(s) /\ UNCHANGED <<cur, known>>
  /\ Pop(Responder)
  /\ UNCHANGED <<hs, answering, started, sessionVars, drops, broken>>

-----------------------------------------------------------------------------
(* Data, keepalive, close                                                  *)

(* encode() and ping()                                                     *)
Send(e, type) ==
  /\ ~answering[e]
  /\ Encrypt(e, AfterMessage(e))
  /\ Emit(e, Seal(e, type))
  /\ UNCHANGED <<objectVars, drops, broken>>

(* A frame of an end without a session, one of its type at a time.         *)
EmitPlain(e, type) ==
  /\ cur[e] = NoSid
  /\ \A i \in DOMAIN wire[Other(e)] : wire[Other(e)][i].type # type
  /\ Emit(e, Frame(type, NoSid, 0))

PlainPing(e) ==
  /\ ~answering[e]
  /\ EmitPlain(e, "PING")
  /\ UNCHANGED <<objectVars, sessionVars, drops, broken>>

Decode(e) ==
  /\ At(e, "DATA")
  /\ Decrypt(e, Head(wire[e]))
  /\ Pop(e)
  /\ UNCHANGED <<objectVars, drops>>

(* The first half of pong(): an error of decrypt() is suppressed, and a    *)
(* plain PING is answered under the session as well.                       *)
PongDecrypt(e) ==
  /\ At(e, "PING")
  /\ Decrypt(e, Head(wire[e]))
  /\ answering' = [answering EXCEPT ![e] = cur[e] # NoSid]
  /\ Pop(e)
  /\ UNCHANGED <<hs, cur, started, known, drops>>

PongEncrypt(e) ==
  /\ answering[e]
  /\ answering' = [answering EXCEPT ![e] = FALSE]
  /\ \/ Encrypt(e, AfterMessage(e)) /\ Emit(e, Seal(e, "PONG"))
     \/ ~Active(e) /\ UNCHANGED <<sessionVars, wire>>
  /\ UNCHANGED <<hs, cur, started, known, drops, broken>>

(* No method takes a PONG: its payload is never decrypted.                 *)
IgnorePong(e) ==
  /\ At(e, "PONG")
  /\ Lose(e, Head(wire[e]))
  /\ Pop(e)
  /\ UNCHANGED <<objectVars, state, drops>>

Forget(e) == cur' = [cur EXCEPT ![e] = NoSid]

(* close(): encrypt(), then revoke().  When encrypt() raises, close()      *)
(* does nothing.  Without a session it makes a plain CLOSE.                *)
Close(e) ==
  /\ ~answering[e]
  /\ \/ /\ Encrypt(e, "REVOKED")
        /\ Emit(e, Seal(e, "CLOSE"))
        /\ Forget(e)
     \/ /\ EmitPlain(e, "CLOSE")
        /\ UNCHANGED <<cur, sessionVars>>
  /\ UNCHANGED <<hs, answering, started, known, drops, broken>>

(* Fault: only the error path revokes.                                     *)
BadRevokes(e, f) == cur[e] # NoSid /\ ~Opens(e, f)

Revokes(e, f) == cur[e] # NoSid

(* handle_close(): decrypt() or not, the session is revoked.               *)
HandleClose(e) ==
  /\ At(e, "CLOSE")
  /\ LET f == Head(wire[e])
     IN  /\ \/ Opens(e, f) /\ Accept(e, f)
            \/ ~Opens(e, f) /\ Lose(e, f)
         /\ \/ /\ Revokes(e, f)
               /\ state' = [state EXCEPT ![e][cur[e]] = "REVOKED"]
               /\ Forget(e)
            \/ ~Revokes(e, f) /\ UNCHANGED <<state, cur>>
  /\ Pop(e)
  /\ UNCHANGED <<hs, answering, started, known, drops>>

-----------------------------------------------------------------------------
(* Resumption                                                              *)

(* One attempt at a time.                                                  *)
NoResumeUnderWay ==
  \A e \in End : \A i \in DOMAIN wire[e] : wire[e][i].type \notin {"RESUME", "RESUME_ACK"}

StartResume ==
  /\ ~answering[Initiator]
  /\ Active(Initiator)
  /\ NoResumeUnderWay
  /\ Emit(Initiator, Frame("RESUME", cur[Initiator], recvSeq[Initiator][cur[Initiator]]))
  /\ UNCHANGED <<objectVars, sessionVars, drops, broken>>

(* The session parameter, or _session when there is none.                  *)
Offered(param) == IF param = NoSid THEN cur[Responder] ELSE param

CanResume(s, f) == s = f.sid /\ state[Responder][s] = "ACTIVE"

(* Fault: the server adopts the client's last_seq as its own.              *)
BadHandleResume ==
  /\ At(Responder, "RESUME")
  /\ LET f == Head(wire[Responder])
     IN  \E param \in known \cup {NoSid} :
           /\ CanResume(Offered(param), f)
           /\ cur' = [cur EXCEPT ![Responder] = f.sid]
           /\ recvSeq' = [recvSeq EXCEPT ![Responder][f.sid] = f.n]
           /\ PopAndEmit(Responder, Frame("RESUME_ACK", f.sid, f.n))
  /\ UNCHANGED <<hs, answering, started, known, state, sendSeq, accepted, drops, broken>>

HandleResume ==
  /\ At(Responder, "RESUME")
  /\ LET f == Head(wire[Responder])
     IN  \E param \in known \cup {NoSid} :
           \/ /\ CanResume(Offered(param), f)
              /\ cur' = [cur EXCEPT ![Responder] = f.sid]
              /\ PopAndEmit(Responder, Frame("RESUME_ACK", f.sid, recvSeq[Responder][f.sid]))
           \/ /\ ~CanResume(Offered(param), f)
              /\ UNCHANGED cur
              /\ Pop(Responder)
  /\ UNCHANGED <<hs, answering, started, known, sessionVars, drops, broken>>

(* complete_resume() returns; otherwise it raises.  Either way nothing of  *)
(* the session changes.                                                    *)
Resumes(f) == Active(Initiator) /\ f.sid = cur[Initiator]

CompleteResume ==
  /\ At(Initiator, "RESUME_ACK")
  /\ Pop(Initiator)
  /\ UNCHANGED <<objectVars, sessionVars, drops, broken>>

-----------------------------------------------------------------------------
Init ==
  /\ hs = [e \in End |-> NoSid]
  /\ cur = [e \in End |-> NoSid]
  /\ answering = [e \in End |-> FALSE]
  /\ started = {}
  /\ known = {}
  /\ state = [e \in End |-> [s \in Sid |-> "NONE"]]
  /\ sendSeq = [e \in End |-> [s \in Sid |-> 0]]
  /\ recvSeq = [e \in End |-> [s \in Sid |-> 0]]
  /\ wire = [e \in End |-> << >>]
  /\ drops = 0
  /\ accepted = [e \in End |-> [s \in Sid |-> << >>]]
  /\ broken = {}

Handle(e) ==
  \/ e = Responder /\ (HandleHello \/ HandleComplete \/ HandleResume)
  \/ e = Initiator /\ (CompleteHandshake \/ CompleteResume)
  \/ RefuseHandshake(e)
  \/ Decode(e) \/ PongDecrypt(e) \/ PongEncrypt(e) \/ IgnorePong(e) \/ HandleClose(e)

Call(e) ==
  /\ Len(wire[Other(e)]) < MaxWire
  /\ \/ e = Initiator /\ (StartResume \/ \E s \in Sid : StartHandshake(s))
     \/ \E type \in {"DATA", "PING"} : Send(e, type)
     \/ PlainPing(e)
     \/ Close(e)

Next ==
  \/ Drop
  \/ \E e \in End : Handle(e) \/ Call(e) \/ \E s \in Sid : Age(e, s)

Spec == Init /\ [][Next]_vars

-----------------------------------------------------------------------------
(* Properties                                                              *)

States == {"NONE", "ACTIVE", "EXPIRED", "REVOKED"}

Frames == [type : FrameType, sid : Sid \cup {NoSid}, n : Nat]

TypeOK ==
  /\ hs \in [End -> Sid \cup {NoSid}]
  /\ cur \in [End -> Sid \cup {NoSid}]
  /\ answering \in [End -> BOOLEAN]
  /\ started \subseteq Sid
  /\ known \subseteq Sid
  /\ state \in [End -> [Sid -> States]]
  /\ sendSeq \in [End -> [Sid -> Nat]]
  /\ recvSeq \in [End -> [Sid -> Nat]]
  /\ wire \in [End -> Seq(Frames)]
  /\ drops \in Nat
  /\ accepted \in [End -> [Sid -> Seq(Nat)]]
  /\ broken \subseteq End \X Sid

(* The server serves, and offers for resumption, only sessions that the    *)
(* client holds too: a session counts from its COMPLETE on, whatever was   *)
(* lost and however often the client started over.                         *)
ServedIsShared ==
  \A s \in Sid : cur[Responder] = s \/ s \in known => state[Initiator][s] # "NONE"

(* Frames are refused for their number only after a loss: as long as every *)
(* payload of a session towards an end was handed to decrypt(), the next   *)
(* one that arrives is the one it expects, over resumptions as well.       *)
SeamlessUntilLoss ==
  \A e \in End :
    LET f == Head(wire[e])
    IN  wire[e] # << >> /\ Sealed(f) /\ <<e, f.sid>> \notin broken
          => f.n = recvSeq[e][f.sid] \/ state[e][f.sid] # "ACTIVE"

(* A closed session stays closed and silent at that end, also when it is   *)
(* offered to handle_resume() again.                                       *)
ClosedIsSilent ==
  [][\A e \in End, s \in Sid : state[e][s] \in {"EXPIRED", "REVOKED"} =>
       /\ state'[e][s] \in {"EXPIRED", "REVOKED"}
       /\ sendSeq'[e][s] = sendSeq[e][s]
       /\ accepted'[e][s] = accepted[e][s]]_vars

(* Until a reconnection, the CLOSE of a session ends the session at the    *)
(* peer when it is handled there, in whatever state its numbering is.      *)
CloseIsHeard ==
  [][\A e \in End :
       HandleClose(e) /\ drops = 0 /\ Sealed(Head(wire[e]))
         => state'[e][Head(wire[e]).sid] # "ACTIVE"]_vars

(* complete_resume() "synchronizes sequence state": when it returns, the   *)
(* number the server expects is the client's next or is on its way.        *)
InStep(s) ==
  \/ sendSeq[Initiator][s] = recvSeq[Responder][s]
  \/ \E i \in DOMAIN wire[Responder] :
       LET f == wire[Responder][i]
       IN  Sealed(f) /\ f.sid = s /\ f.n = recvSeq[Responder][s]

ResumeSynchronizes ==
  [][CompleteResume =>
       LET f == Head(wire[Initiator]) IN Resumes(f) => InStep(f.sid)]_vars

-----------------------------------------------------------------------------
(* Each session is a channel that delivers in order, each payload once and *)
(* none skipped, over any number of connections and resumptions.           *)

Phase(e, s) ==
  CASE state[e][s] = "NONE" -> "new"
    [] state[e][s] = "ACTIVE" -> "open"
    [] OTHER -> "closed"

Channel(s) == INSTANCE FifoChannel WITH
  Peer <- End,
  Number <- 0 .. MaxMessages - 1,
  phase <- [e \in End |-> Phase(e, s)],
  offered <- [e \in End |-> {n \in 0 .. MaxMessages - 1 : n < sendSeq[Other(e)][s]}],
  delivered <- [e \in End |-> accepted[e][s]]

(* The conjunction of Channel(s)!Spec for all s, as one step formula.      *)
ImplementsChannels ==
  /\ \A s \in Sid : Channel(s)!Init
  /\ [][\A s \in Sid : [Channel(s)!Next]_(Channel(s)!vars)]_vars
=============================================================================
