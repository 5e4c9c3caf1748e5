---------------------------- MODULE RouterDriver ----------------------------
(***************************************************************************)
(* The driver of a router VDU in the vnf-manager (drivers/vyatta.py): the  *)
(* instances of the VDU are initialised by threads that share one driver   *)
(* object, and are configured later with an object each.  A thread gives   *)
(* way at every call to its machine, so whatever it keeps in the object    *)
(* may be another thread's when the call returns.                          *)
(*                                                                         *)
(* At the end get_ssh_conn of drivers/common/sshadapter.py: a behaviour is *)
(* about the driver or about that.                                         *)
(***************************************************************************)
EXTENDS Naturals, Sequences, FiniteSets

CONSTANTS RouterVm, \* the instances of the VDU
          Card,     \* the interfaces that are listed for the data plane
          Rules,    \* the NAT rules and the route of config, in order
          Polls,    \* how often a list that is not ready is asked for again
          Tries     \* how often get_ssh_conn tries again

ASSUME DriverAssumption ==
  /\ Polls \in Nat /\ Tries \in Nat /\ Rules \in Seq(STRING)
  /\ \A k \in DOMAIN Rules : Rules[k] \notin Card

VARIABLES
  object,   \* session_id of the object that the init threads share
  work,     \* work[i]: where the thread of i is, and what it has left
  outcome,  \* outcome[i][event]: what the thread of the event returned
  box,      \* box[i]: the machine: its sessions, its configurations
  troubles, \* troubles[i]: how calls to i went wrong
  mixed,    \* the instances whose session was another's before they saved
  ssh       \* get_ssh_conn

routerVars == <<object, work, outcome, box, troubles, mixed, ssh>>

Event == {"init", "config"}
RuleSet == {Rules[k] : k \in DOMAIN Rules}
NoSession == <<"none", "none">>

RouterInit ==
  /\ object = NoSession
  /\ work = [i \in RouterVm |-> [at |-> "idle", event |-> "init", left |-> {}, n |-> 0]]
  /\ outcome = [i \in RouterVm |-> [e \in Event |-> "none"]]
  /\ \E set \in {{}, Card} :
       box = [i \in RouterVm |-> [open |-> {}, pending |-> [e \in Event |-> {}],
                                running |-> set, saved |-> set, default |-> TRUE]]
  /\ troubles = [i \in RouterVm |-> {}] /\ mixed = {}
  /\ ssh \in [state : {"idle", "unused"}, tries : {0}, connected : {FALSE}]

(* The machine answers as asked, with an error status, or not at all; one  *)
(* call to a machine goes wrong at most, a bound of the model.             *)
Replies(i) == {"ok"} \cup IF troubles[i] = {} THEN {"refused", "failed"} ELSE {}

WorkGoes(i, at) == work' = [work EXCEPT ![i].at = at]

Returns(i, status) ==
  /\ work' = [work EXCEPT ![i] = [at |-> "idle", event |-> "config", left |-> {}, n |-> 0]]
  /\ outcome' = [outcome EXCEPT ![i][work[i].event] = status]

(* No status is looked at: only a call that raises is noticed as such.     *)
Got(i, a) ==
  /\ troubles' = IF a = "ok" THEN troubles ELSE [troubles EXCEPT ![i] = @ \cup {a}]
  /\ UNCHANGED object

(* The session that the thread names in a request: the object's, which the *)
(* init threads share.                                                     *)
SessionNamed(i) == IF work[i].event = "init" THEN object ELSE <<i, "config">>

(* The machine has the session.                                            *)
Knows(i, session) == session[1] = i /\ session[2] \in box[i].open

-----------------------------------------------------------------------------
(* Beginning *)

(* _invoke_driver_thread, then postConfigure, which comes when the init of *)
(* all instances is done; after ten seconds of sleep each makes its call.  *)
BeginEvent(i) ==
  /\ work[i].at = "idle" /\ ssh.state = "unused"
  /\ \/ /\ outcome[i]["init"] = "none" /\ WorkGoes(i, "session")
     \/ /\ \A j \in RouterVm : outcome[j]["init"] = "COMPLETE"
        /\ outcome[i]["config"] = "none"
        /\ WorkGoes(i, "operation")
  /\ UNCHANGED <<object, outcome, box, troubles, mixed, ssh>>

(* _set_ext_interface: the list of the interfaces is asked for as an       *)
(* operation, whose place is in the answer.                                *)
AskInterfaces(i) ==
  /\ work[i].at = "operation"
  /\ \E a \in Replies(i) :
       /\ Got(i, a)
       /\ IF a = "ok" THEN WorkGoes(i, "poll") /\ UNCHANGED outcome ELSE Returns(i, "ERROR")
  /\ UNCHANGED <<box, mixed, ssh>>

(* ... it is asked for again while it is not ready, ten times at most.     *)
NotReady(i) ==
  /\ work[i].at = "poll"
  /\ IF work[i].n = Polls THEN WorkGoes(i, "session") ELSE work' = [work EXCEPT ![i].n = @ + 1]
  /\ UNCHANGED <<outcome, troubles, object, box, mixed, ssh>>

(* ... and the interface that has the public address is looked for in it.  *)
ReadInterfaces(i) ==
  /\ work[i].at = "poll"
  /\ \/ /\ work' = [work EXCEPT ![i].at = "session", ![i].left = RuleSet]
        /\ Got(i, "ok") /\ UNCHANGED outcome
     \/ /\ "refused" \in Replies(i) /\ Got(i, "refused")
        /\ WorkGoes(i, "session") /\ UNCHANGED outcome
     \/ "failed" \in Replies(i) /\ Got(i, "failed") /\ Returns(i, "ERROR")
  /\ UNCHANGED <<box, mixed, ssh>>

-----------------------------------------------------------------------------
(* The session *)

(* A new session, kept in the object.  The threads that are under way with *)
(* the same object will name it from now on.  Without the public interface *)
(* config ends here and leaves its session open.                           *)
OpenSession(i) ==
  /\ work[i].at = "session"
  /\ LET e == work[i].event IN
     \/ /\ Got(i, "ok") /\ box' = [box EXCEPT ![i].open = @ \cup {e}]
        /\ e = "config"
        /\ IF work[i].left = {} THEN Returns(i, "ERROR") ELSE WorkGoes(i, "put") /\ UNCHANGED outcome
        /\ UNCHANGED mixed
     \/ /\ UNCHANGED troubles /\ object' = <<i, "init">>
        /\ box' = [box EXCEPT ![i].open = @ \cup {e}]
        /\ e = "init" /\ WorkGoes(i, "read")
        /\ mixed' = mixed \cup {j \in RouterVm \ {i} : /\ work[j].event = "init"
                                                     /\ work[j].at \in {"read", "put", "commit", "save"}}
        /\ UNCHANGED outcome
     \/ /\ \E a \in Replies(i) \ {"ok"} : Got(i, a)
        /\ Returns(i, "ERROR") /\ UNCHANGED <<box, mixed>>
  /\ UNCHANGED ssh

(* execute_ip_set: which interfaces have no address yet; the requests for  *)
(* this and for the addresses were written when the session was opened.    *)
ReadCards(i) ==
  /\ work[i].at = "read"
  /\ \E a \in Replies(i) :
       /\ Got(i, a)
       /\ IF a = "ok"
          THEN /\ LET bare == Card \ box[i].running IN
                  work' = [work EXCEPT ![i].left = bare,
                                       ![i].at = IF bare = {} THEN "commit" ELSE "put"]
               /\ UNCHANGED outcome
          ELSE Returns(i, "ERROR")
  /\ UNCHANGED <<box, mixed, ssh>>

NextSetting(i) == IF work[i].event = "init" THEN CHOOSE c \in work[i].left : TRUE
            ELSE Rules[Len(Rules) - Cardinality(work[i].left) + 1]

(* Mutant: what init has sent is saved without a commit.                   *)
AfterPutsUncommitted(i, left) ==
  IF left # {} THEN "put" ELSE IF work[i].event = "init" THEN "save" ELSE "route"

AfterPuts(i, left) ==
  IF left # {} THEN "put" ELSE IF work[i].event = "init" THEN "commit" ELSE "route"

(* A setting goes to the session; that it is refused is not seen.          *)
PutPending(i, a) ==
  box' = IF a # "ok" THEN box
         ELSE [box EXCEPT ![i].pending[work[i].event] = @ \cup {NextSetting(i)}]

Put(i) ==
  /\ work[i].at = "put"
  /\ \E a \in Replies(i) :
       /\ Got(i, a) /\ PutPending(i, a)
       /\ IF a = "failed" THEN Returns(i, "ERROR")
          ELSE /\ LET left == work[i].left \ {NextSetting(i)} IN
                  work' = [work EXCEPT ![i].left = left, ![i].at = AfterPuts(i, left)]
               /\ UNCHANGED outcome
  /\ UNCHANGED <<mixed, ssh>>

(* config removes the default route of the machine over ssh.               *)
DropRoute(i) ==
  /\ work[i].at = "route"
  /\ \/ /\ Got(i, "ok") /\ box' = [box EXCEPT ![i].default = FALSE]
        /\ WorkGoes(i, "commit") /\ UNCHANGED outcome
     \/ "failed" \in Replies(i) /\ Got(i, "failed") /\ Returns(i, "ERROR") /\ UNCHANGED box
  /\ UNCHANGED <<mixed, ssh>>

(* The commit and the save name the session that is the object's by now: a *)
(* machine does not know another's, and its refusal is not seen.           *)
CommitSession(i) ==
  /\ work[i].at = "commit"
  /\ \E a \in Replies(i) :
       /\ Got(i, a)
       /\ box' = IF a = "refused" \/ ~ Knows(i, SessionNamed(i)) THEN box
                 ELSE [box EXCEPT ![i].running = @ \cup box[i].pending[SessionNamed(i)[2]]]
       /\ IF a = "failed" THEN Returns(i, "ERROR") ELSE WorkGoes(i, "save") /\ UNCHANGED outcome
  /\ UNCHANGED <<mixed, ssh>>

SaveSession(i) ==
  /\ work[i].at = "save"
  /\ \E a \in Replies(i) :
       /\ Got(i, a)
       /\ box' = IF a # "ok" \/ ~ Knows(i, SessionNamed(i)) THEN box
                 ELSE [box EXCEPT ![i].saved = box[i].running]
       /\ Returns(i, IF a = "failed" THEN "ERROR" ELSE "COMPLETE")
  /\ UNCHANGED <<mixed, ssh>>

-----------------------------------------------------------------------------
(* get_ssh_conn *)

(* The first attempt: refused credentials end it without a client.         *)
FirstTry ==
  /\ ssh.state = "idle"
  /\ \/ ssh' = [ssh EXCEPT !.state = "client", !.connected = TRUE]
     \/ ssh' = [ssh EXCEPT !.state = "nothing"]
     \/ ssh' = [ssh EXCEPT !.state = "retry"]
  /\ UNCHANGED <<object, work, outcome, box, troubles, mixed>>

(* ... any other failure, of whatever kind, is tried again; after the last *)
(* attempt the client is returned, for it is an SSHClient all the same.    *)
TryAgain ==
  /\ ssh.state = "retry"
  /\ \/ ssh.tries < Tries /\ ssh' = [ssh EXCEPT !.state = "client", !.connected = TRUE]
     \/ ssh.tries < Tries /\ ssh' = [ssh EXCEPT !.tries = @ + 1]
     \/ ssh.tries = Tries /\ ssh' = [ssh EXCEPT !.state = "client"]
  /\ UNCHANGED <<object, work, outcome, box, troubles, mixed>>

-----------------------------------------------------------------------------
RouterStep(i) ==
  \/ AskInterfaces(i) \/ NotReady(i) \/ ReadInterfaces(i) \/ OpenSession(i) \/ ReadCards(i)
  \/ Put(i) \/ DropRoute(i) \/ CommitSession(i) \/ SaveSession(i)
SshStep == FirstTry \/ TryAgain

RouterNext == (\E i \in RouterVm : BeginEvent(i) \/ RouterStep(i)) \/ SshStep

RouterSpec == RouterInit /\ [][RouterNext]_routerVars

-----------------------------------------------------------------------------
(* Properties *)

(* Where the threads are, what the machines keep, and no session without a *)
(* thread that opened it.                                                  *)
RouterTypeOK ==
  /\ object \in {NoSession} \cup RouterVm \X {"init"}
  /\ work \in [RouterVm -> [at : {"idle", "operation", "poll", "session", "read", "put",
                                "route", "commit", "save"},
                          event : Event, left : SUBSET (Card \cup RuleSet), n : 0 .. Polls]]
  /\ outcome \in [RouterVm -> [Event -> {"none", "COMPLETE", "ERROR"}]]
  /\ box \in [RouterVm -> [open : SUBSET Event, pending : [Event -> SUBSET (Card \cup RuleSet)],
                         running : SUBSET (Card \cup RuleSet),
                         saved : SUBSET (Card \cup RuleSet), default : BOOLEAN]]
  /\ troubles \in [RouterVm -> SUBSET {"refused", "failed"}] /\ mixed \subseteq RouterVm
  /\ ssh \in [state : {"unused", "idle", "retry", "client", "nothing"}, tries : 0 .. Tries,
              connected : BOOLEAN]
  /\ object # NoSession => "init" \in box[object[1]].open

(* An instance that is acknowledged has its settings, saved, when it has   *)
(* refused nothing and no other instance opened a session meanwhile.       *)
CompleteMeansSaved ==
  \A i \in RouterVm : troubles[i] = {} =>
    /\ outcome[i]["init"] = "COMPLETE" /\ i \notin mixed => Card \subseteq box[i].saved
    /\ outcome[i]["config"] = "COMPLETE" => RuleSet \subseteq box[i].saved

(* Settings take effect together: a machine that refuses none runs with    *)
(* all the rules or with none, wherever its threads stopped.               *)
AllOrNone ==
  \A i \in RouterVm : "refused" \notin troubles[i] =>
    /\ box[i].running \cap Card \in {{}, Card}
    /\ box[i].running \cap RuleSet \in {{}, RuleSet}

(* The default route goes only when all rules were sent to the machine.    *)
RouteGoesLast ==
  \A i \in RouterVm : ~ box[i].default =>
    \/ "refused" \in troubles[i]
    \/ RuleSet \subseteq box[i].pending["config"]

(* A thread ends with an error for something its own machine did, however  *)
(* the threads overlap.                                                    *)
ErrorForCause ==
  \A i \in RouterVm, e \in Event :
    outcome[i][e] = "ERROR" =>
      \/ troubles[i] # {}
      \/ e = "config" /\ "config" \in box[i].open /\ box[i].pending["config"] = {}

(* A client that is not connected is returned after the last attempt only. *)
GivesUpLast == ssh.state = "client" /\ ~ ssh.connected => ssh.tries = Tries

(* What makes it so, of a thread w with its outcomes o, its machine b, the *)
(* troubles t, and m, not empty when its session was another's. The place  *)
(* of a thread tells its event, what is left of its settings, and that     *)
(* config names a session the machine has;                                 *)
PlaceOk(w, o, b) ==
  /\ w.event = "init" <=> o["init"] = "none"
  /\ o["config"] # "none" => w.at = "idle" /\ w.event = "config"
  /\ w.at \in {"operation", "poll", "route"} => w.event = "config"
  /\ w.at = "read" => w.event = "init"
  /\ w.left \subseteq (IF w.event = "init" THEN Card ELSE RuleSet)
  /\ w.at \notin {"session", "put"} => w.left = {}
  /\ w.at = "session" => w.left = {} \/ (w.event = "config" /\ w.left = RuleSet)
  /\ w.at = "put" => w.left # {}
  /\ w.event = "config" /\ w.at \in {"put", "route", "commit", "save"} => "config" \in b.open

(* what was sent to a machine that refuses nothing, and what is left, is   *)
(* all of it, and at the save it is in effect;                             *)
SettingsOk(w, o, b, t, m) ==
  /\ b.pending["init"] \subseteq Card /\ b.pending["config"] \subseteq RuleSet
  /\ b.saved \subseteq b.running
  /\ \/ w.event = "init"
     \/ o["config"] = "none" /\ w.at \in {"idle", "operation", "poll", "session"}
     => b.pending["config"] = {}
  /\ "refused" \notin t =>
       /\ w.event = "init" /\ w.at \in {"put", "commit"}
            => Card \subseteq b.running \cup b.pending["init"] \cup w.left
       /\ w.event = "config" /\ w.at \in {"put", "route", "commit"}
            => RuleSet \subseteq b.pending["config"] \cup w.left
  /\ t = {} /\ w.at = "save" =>
       /\ w.event = "init" /\ m = {} => Card \subseteq b.running
       /\ w.event = "config" => RuleSet \subseteq b.running

(* and a thread of init whose session was not another's names its own.     *)
SessionOwn(i) ==
  work[i].event = "init" /\ work[i].at \in {"read", "put", "commit", "save"} /\ i \notin mixed
    => object = <<i, "init">>

RouterInv ==
  /\ RouterTypeOK
  /\ \A i \in RouterVm : /\ PlaceOk(work[i], outcome[i], box[i])
                        /\ SettingsOk(work[i], outcome[i], box[i], troubles[i], mixed \cap {i})
                        /\ SessionOwn(i)
  /\ CompleteMeansSaved /\ AllOrNone /\ RouteGoesLast /\ ErrorForCause /\ GivesUpLast
=============================================================================
