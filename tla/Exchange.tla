------------------------------ MODULE Exchange ------------------------------
(***************************************************************************)
(* What TcpSession promises a client.  Clients are served one after the    *)
(* other, the next one when every service was told that the last has gone. *)
(* Each request is answered once, after it was asked, and acted upon at    *)
(* most once, before its answer; the answer says success only if it was    *)
(* acted upon, and if it was, at worst that the result was too large.      *)
(* Of a client that is astray, for it sent what could not be read, no more *)
(* is promised than that it is heard, and left, like any other.            *)
(***************************************************************************)
EXTENDS Naturals

CONSTANT Services

Outcomes == {"success", "tooLarge", "refused"}

VARIABLES
  conn,      \* the client: "none", "open", or "closed" by it
  asked,     \* how many requests it sent
  answered,  \* how many were answered
  acts,      \* how often a service acted for it
  done,      \* the request after the answered ones was acted upon
  last,      \* the last answer, or "none"
  astray,    \* nothing is promised any more
  told       \* the services told that the last client has gone

vars == <<conn, asked, answered, acts, done, last, astray, told>>

Init ==
  /\ conn = "none" /\ told = Services
  /\ asked = 0 /\ answered = 0 /\ acts = 0
  /\ done = FALSE /\ last = "none" /\ astray = FALSE

Accept ==
  /\ conn = "none" /\ told = Services
  /\ conn' = "open" /\ told' = {}
  /\ asked' = 0 /\ answered' = 0 /\ acts' = 0
  /\ done' = FALSE /\ last' = "none" /\ astray' = FALSE

Ask ==
  /\ conn = "open"
  /\ asked' = asked + 1
  /\ UNCHANGED <<conn, answered, acts, done, last, astray, told>>

Close ==
  /\ conn = "open"
  /\ conn' = "closed"
  /\ UNCHANGED <<asked, answered, acts, done, last, astray, told>>

GoAstray ==
  /\ conn # "none"
  /\ astray' = TRUE
  /\ done' = FALSE
  /\ UNCHANGED <<conn, asked, answered, acts, last, told>>

Act ==
  /\ conn # "none"
  /\ ~astray => ~done /\ answered < asked
  /\ acts' = acts + 1
  /\ done' = ~astray
  /\ UNCHANGED <<conn, asked, answered, last, astray, told>>

Answer(o) ==
  /\ conn # "none"
  /\ ~astray => /\ answered < asked
                /\ o = "success" => done
                /\ done => o \in {"success", "tooLarge"}
  /\ answered' = answered + 1
  /\ last' = o
  /\ done' = FALSE
  /\ UNCHANGED <<conn, asked, acts, astray, told>>

Leave ==
  /\ conn # "none"
  /\ conn' = "none"
  /\ done' = FALSE
  /\ UNCHANGED <<asked, answered, acts, last, astray, told>>

Tell(s) ==
  /\ conn = "none"
  /\ told' = told \cup {s}
  /\ UNCHANGED <<conn, asked, answered, acts, done, last, astray>>

Next ==
  \/ Accept \/ Ask \/ Close \/ GoAstray \/ Act \/ Leave
  \/ (\E o \in Outcomes : Answer(o)) \/ (\E s \in Services : Tell(s))

Spec == Init /\ [][Next]_vars
=============================================================================
