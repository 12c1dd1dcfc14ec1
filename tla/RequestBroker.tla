---------------------------- MODULE RequestBroker ----------------------------
(***************************************************************************)
(* What a multiplexer of one server over many connections promises, with   *)
(* no mention of ids it gives out, queues or goroutines: the requests of   *)
(* a connection are numbered by their owner, each is answered at most      *)
(* once and with its own answer, and a connection that is over gets        *)
(* nothing more.  DaemonProxy implements it.                               *)
(***************************************************************************)
EXTENDS Naturals

CONSTANTS Clients, InitID

VARIABLES
  asked,    (* how many requests each connection's owner has issued          *)
  answers,  (* the answers each connection got: under which id, to what call *)
  over      (* connections the multiplexer is through with                   *)
bvars == <<asked, answers, over>>

Answer == [id : Nat, from : Clients, call : Nat]

BrokerTypeOK ==
  /\ asked \in [Clients -> Nat]
  /\ answers \in [Clients -> SUBSET Answer]
  /\ over \subseteq Clients

BrokerInit ==
  /\ asked = [c \in Clients |-> 0]
  /\ answers = [c \in Clients |-> {}]
  /\ over = {}

Ask(c) ==
  /\ c \notin over
  /\ asked' = [asked EXCEPT ![c] = @ + 1]
  /\ UNCHANGED <<answers, over>>

(* The calls whose answer may be given to c under the id k: k itself, and  *)
(* for an initialize any initialize that has been issued.                  *)
Sources(c, k) ==
  {<<c, k>>} \cup (IF k = InitID THEN {<<d, InitID>> : d \in {e \in Clients : asked[e] >= InitID}}
                                 ELSE {})

Reply(c, k, s) ==
  /\ c \notin over /\ k \in 1 .. asked[c] /\ s \in Sources(c, k)
  /\ \A a \in answers[c] : a.id # k
  /\ answers' = [answers EXCEPT ![c] = @ \cup {[id |-> k, from |-> s[1], call |-> s[2]]}]
  /\ UNCHANGED <<asked, over>>

End(c) ==
  /\ over' = over \cup {c}
  /\ UNCHANGED <<asked, answers>>

BrokerNext ==
  \E c \in Clients :
    \/ Ask(c) \/ End(c)
    \/ \E k \in 1 .. asked[c] : \E s \in Sources(c, k) : Reply(c, k, s)

BrokerSpec == BrokerInit /\ [][BrokerNext]_bvars
=============================================================================
