-------------------------------- MODULE Coap --------------------------------
(***************************************************************************)
(* The observers of the CoAP adapter (coap/adapter.go, observer.go,        *)
(* client.go, api/transport.go).  A client that sends a GET with Observe 0 *)
(* gets a NATS subscription on the channel's subject, stored under the     *)
(* subject and the token of the request; a goroutine of its own waits for  *)
(* the client's connection to end and then removes whatever is stored      *)
(* there.  Observe 1 removes it too.                                       *)
(*                                                                         *)
(* A call of Subscribe is two steps, since the goroutine it starts and     *)
(* other calls may run between the subscription and put; put and remove    *)
(* hold obsLock and are one step each.  Their Cancel fails only when NATS  *)
(* refuses an Unsubscribe of a subscription that is not active, and they   *)
(* then return early; an observer is taken out of the map together with    *)
(* its subscription, so that this case is left out.                        *)
(*                                                                         *)
(* The map of one subject's observers is created with the first and        *)
(* deleted with the last of them, so that a missing map and an empty one   *)
(* are the same here.                                                      *)
(***************************************************************************)
EXTENDS Naturals, FiniteSets

CONSTANTS
    Conns,      \* client connections; a closed one stays closed
    Subjects,   \* channels.<id>[.<subtopic>]
    Tokens,     \* CoAP tokens, chosen by the clients
    MaxObs,     \* bound: observers made in one behaviour
    NoObserver

VARIABLES
    open,       \* connections that are not done
    observers,  \* [Subjects \X Tokens -> observer stored, or NoObserver]
    subs,       \* observers whose NATS subscription is active
    pending,    \* observers made and not yet put
    watchers,   \* goroutines waiting for a connection to end
    made,       \* observers made so far
    late        \* history: observers put after their goroutine had finished

coapVars == <<open, observers, subs, pending, watchers, made, late>>

Observer == [n : 1..MaxObs, conn : Conns, subject : Subjects, token : Tokens]

ASSUME CoapAssumption == MaxObs \in Nat /\ NoObserver \notin Observer

CancelledNothing(o) == {}

(* observer.Cancel: the subscription goes, and the connection is closed.   *)
Cancelled(o) == IF o = NoObserver THEN {} ELSE {o}
Closed(o) == IF o = NoObserver THEN {} ELSE {o.conn}

(* The handler's GET with Observe 0, as far as NewObserver: the key has    *)
(* access to the channel, the goroutine is started and NATS subscribed.    *)
Subscribe(c, s, t) ==
    /\ c \in open /\ made < MaxObs
    /\ LET o == [n |-> made + 1, conn |-> c, subject |-> s, token |-> t] IN
       /\ subs' = subs \cup {o}
       /\ pending' = pending \cup {o}
       /\ watchers' = watchers \cup {o}
    /\ made' = made + 1
    /\ UNCHANGED <<open, observers, late>>

(* NATS refuses the subscription: the client is cancelled.                 *)
SubscribeFails(c, s, t) ==
    /\ c \in open /\ made < MaxObs
    /\ watchers' = watchers \cup {[n |-> made + 1, conn |-> c, subject |-> s, token |-> t]}
    /\ made' = made + 1
    /\ open' = open \ {c}
    /\ UNCHANGED <<observers, subs, pending, late>>

(* put: an observer already there is cancelled and replaced.               *)
Put(o) ==
    LET old == observers[<<o.subject, o.token>>] IN
    /\ o \in pending
    /\ pending' = pending \ {o}
    /\ observers' = [observers EXCEPT ![<<o.subject, o.token>>] = o]
    /\ subs' = subs \ Cancelled(old)
    /\ open' = open \ Closed(old)
    /\ late' = IF o \in watchers THEN late ELSE late \cup {o}
    /\ UNCHANGED <<watchers, made>>

RemoveKeepingEntry(s, t) ==
    LET old == observers[<<s, t>>] IN
    /\ observers' = observers
    /\ subs' = subs \ Cancelled(old)
    /\ open' = open \ Closed(old)

(* remove: whoever is stored under subject and token is cancelled.         *)
Remove(s, t) ==
    LET old == observers[<<s, t>>] IN
    /\ observers' = [observers EXCEPT ![<<s, t>>] = NoObserver]
    /\ subs' = subs \ Cancelled(old)
    /\ open' = open \ Closed(old)

WatchNothing(w) ==
    /\ w \in watchers /\ w.conn \notin open
    /\ watchers' = watchers \ {w}
    /\ UNCHANGED <<open, observers, subs, pending, made, late>>

(* The goroutine of Subscribe, once the connection is done.                *)
Watch(w) ==
    /\ w \in watchers /\ w.conn \notin open
    /\ watchers' = watchers \ {w}
    /\ Remove(w.subject, w.token)
    /\ UNCHANGED <<pending, made, late>>

(* The handler's GET with Observe 1.                                       *)
Unsubscribe(c, s, t) ==
    /\ c \in open
    /\ Remove(s, t)
    /\ UNCHANGED <<pending, watchers, made, late>>

(* The client goes away, or its connection times out.                      *)
Disconnect(c) ==
    /\ c \in open
    /\ open' = open \ {c}
    /\ UNCHANGED <<observers, subs, pending, watchers, made, late>>

CoapInit ==
    /\ open = Conns
    /\ observers = [p \in Subjects \X Tokens |-> NoObserver]
    /\ subs = {} /\ pending = {} /\ watchers = {} /\ late = {}
    /\ made = 0

CoapNext ==
    \/ \E c \in Conns : Disconnect(c)
    \/ \E c \in Conns, s \in Subjects, t \in Tokens :
          Subscribe(c, s, t) \/ SubscribeFails(c, s, t) \/ Unsubscribe(c, s, t)
    \/ \E o \in pending : Put(o)
    \/ \E w \in watchers : Watch(w)

(* The runtime schedules goroutines and handlers that can run.             *)
CoapFairness == WF_coapVars(\E o \in pending : Put(o)) /\ WF_coapVars(\E w \in watchers : Watch(w))

CoapSpec == CoapInit /\ [][CoapNext]_coapVars /\ CoapFairness

(***************************************************************************)
(* Properties                                                              *)
(***************************************************************************)
CoapTypeOK ==
    /\ open \subseteq Conns
    /\ observers \in [Subjects \X Tokens -> Observer \cup {NoObserver}]
    /\ subs \subseteq Observer /\ pending \subseteq Observer
    /\ watchers \subseteq Observer /\ late \subseteq Observer
    /\ made \in 0..MaxObs

(* No subscription is lost track of: the active ones are those stored and  *)
(* those about to be stored, however calls, goroutines and clients that    *)
(* share a token interleave.  A subscription that is neither would feed a  *)
(* client until the adapter stops.                                         *)
SubscriptionsAccounted ==
    subs = pending \cup {observers[p] : p \in {q \in Subjects \X Tokens : observers[q] # NoObserver}}

(* An observer whose client is gone is still waited for, unless its        *)
(* goroutine had already run when put stored it: that one stays.           *)
GoneClientsWatched ==
    \A p \in Subjects \X Tokens :
        LET o == observers[p] IN
        o # NoObserver /\ o.conn \notin open => o \in late \/ o \in watchers

(* The observers of a client that goes away are removed in the end, those  *)
(* put too late apart.                                                     *)
GoneClientsRemoved ==
    \A p \in Subjects \X Tokens, c \in Conns :
        (observers[p] # NoObserver /\ observers[p].conn = c /\ c \notin open /\ observers[p] \notin late)
        ~> (observers[p] = NoObserver \/ observers[p].conn # c \/ observers[p] \in late)

(* coap/adapter.go: "If observer exists, cancel subscription and replace   *)
(* it."  A client that repeats its request keeps being observed: the       *)
(* replacement does not close the connection it is for.                    *)
ReplacementKeepsClient ==
    [][\A o \in pending : Put(o) /\ o.conn \in open => o.conn \in open']_coapVars
=============================================================================
