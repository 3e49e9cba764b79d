----------------------------- MODULE DashboardFeed -----------------------------
(***************************************************************************)
(* The live feed of the dashboard: a client connects, is sent a snapshot,  *)
(* is registered, and from then on is sent every event of the bus by the   *)
(* broadcast that the event starts.  Broadcasts are tasks of one event     *)
(* loop: one runs until a send suspends it behind a slow client.           *)
(* Connections break; a client that lost its connection opens another.     *)
(***************************************************************************)
EXTENDS Naturals, Sequences, FiniteSets, Functions

CONSTANTS
  Clients,   \* dashboards, all with the right token
  Opens,     \* bound: Opens[u], connections u opens, one after the other
  MaxEvents  \* bound: events published

ASSUME FeedAssumption == Opens \in [Clients -> Nat \ {0}] /\ MaxEvents \in Nat \ {0}

Conns == UNION {{u} \X (1 .. Opens[u]) : u \in Clients}

VARIABLES
  subscribed, \* _subscribed: the bridge listens to the bus
  published,  \* events so far; the snapshot reflects all of them
  broadcasts, \* the tasks that _on_event created, in that order
  phase,      \* phase[c]: where the endpoint of connection c is
  alive,      \* alive[c]: the server's end of it is open
  base,       \* base[c]: the events its snapshot reflects
  clients,    \* _clients, in the order in which list() enumerates the set
  draining,   \* draining[c]: broadcasts suspended in a send to c, in order
  inbox,      \* inbox[c]: what it is sent: by which broadcast, and was that calm
  missed      \* history: missed[c], events broadcast between snapshot and register

endpoint == <<phase, alive, base>>
feedVars == <<subscribed, published, broadcasts, phase, alive, base, clients,
              draining, inbox, missed>>

Phases == {"unused", "snapshot", "live", "closing", "closed"}

FeedTypeOK ==
  /\ subscribed \in BOOLEAN /\ published \in 0 .. MaxEvents
  /\ \A b \in Range(broadcasts) :
       /\ b.event \in 1 .. published /\ b.state \in {"new", "sending", "done"}
       /\ IsInjective(b.todo) /\ Range(b.todo) \union b.dead \subseteq Conns
  /\ phase \in [Conns -> Phases] /\ alive \in [Conns -> BOOLEAN]
  /\ base \in [Conns -> 0 .. MaxEvents]
  /\ Range(clients) \subseteq {c \in Conns : phase[c] \in {"live", "closing"}}
  /\ IsInjective(clients)
  /\ \A c \in Conns : Range(draining[c]) \subseteq DOMAIN broadcasts
  /\ \A c \in Conns : \A m \in Range(inbox[c]) : m.by \in DOMAIN broadcasts
  /\ missed \in [Conns -> SUBSET (1 .. MaxEvents)]

FeedInit ==
  /\ subscribed = FALSE /\ published = 0 /\ broadcasts = <<>>
  /\ phase = [c \in Conns |-> "unused"]
  /\ alive = [c \in Conns |-> FALSE]
  /\ base = [c \in Conns |-> 0]
  /\ clients = <<>>
  /\ draining = [c \in Conns |-> <<>>]
  /\ inbox = [c \in Conns |-> <<>>]
  /\ missed = [c \in Conns |-> {}]

-------------------------------------------------------------------------------
(* The endpoint and its client.                                               *)

Orders(cs) == {s \in [1 .. Cardinality(cs) -> cs] : IsInjective(s)}

(* History: the connections change under every broadcast that is not done.    *)
Disturbed == [b \in DOMAIN broadcasts |->
                [broadcasts[b] EXCEPT !.calm = @ /\ broadcasts[b].state = "done"]]

(* One that shrinks keeps the order of the others.                            *)
Remaining(cs) ==
  {s \in Orders(Range(clients) \ cs) : \A i, j \in DOMAIN s : i < j =>
     \E k, l \in DOMAIN clients : k < l /\ clients[k] = s[i] /\ clients[l] = s[j]}

(* A set that grows may enumerate its elements in another order.              *)
Register(c) ==
  /\ phase' = [phase EXCEPT ![c] = "live"]
  /\ clients' \in Orders(Range(clients) \union {c})
  /\ broadcasts' = Disturbed

(* Accepted, subscribed to the bus by the first; the snapshot is built        *)
(* without suspending and its send may suspend.  The client has given up its  *)
(* connection before, which the server may not know.                          *)
Connect(c) ==
  /\ phase[c] = "unused"
  /\ c[2] > 1 => phase[<<c[1], c[2] - 1>>] # "unused"
  /\ subscribed' = TRUE
  /\ alive' = [alive EXCEPT ![c] = TRUE]
  /\ base' = [base EXCEPT ![c] = published]
  /\ \/ Register(c)
     \/ phase' = [phase EXCEPT ![c] = "snapshot"] /\ UNCHANGED <<clients, broadcasts>>
  /\ UNCHANGED <<published, draining, inbox, missed>>

(* The send returns, or raises because the peer is gone: registered anyway.   *)
SnapshotSent(c) ==
  /\ phase[c] = "snapshot"
  /\ Register(c)
  /\ UNCHANGED <<subscribed, published, alive, base, draining, inbox, missed>>

(* The connection breaks, or the server's pings find that it is broken.       *)
Break(c) ==
  /\ alive[c] /\ c[2] < Opens[c[1]]
  /\ alive' = [alive EXCEPT ![c] = FALSE]
  /\ broadcasts' = Disturbed
  /\ UNCHANGED <<subscribed, published, phase, base, clients, draining, inbox, missed>>

(* receive_text raises; the tick task is cancelled and awaited.               *)
Notice(c) ==
  /\ phase[c] = "live" /\ ~alive[c]
  /\ phase' = [phase EXCEPT ![c] = "closing"]
  /\ UNCHANGED <<subscribed, published, broadcasts, alive, base, clients, draining, inbox,
                 missed>>

Unregister(c) ==
  /\ phase[c] = "closing"
  /\ phase' = [phase EXCEPT ![c] = "closed"]
  /\ clients' \in Remaining({c})
  /\ broadcasts' = Disturbed
  /\ UNCHANGED <<subscribed, published, alive, base, draining, inbox, missed>>

-------------------------------------------------------------------------------
(* publish calls _on_event, once for each time it was subscribed, and that    *)
(* creates a task.  ensure_subscribed subscribes it once.                     *)
Bridges == IF subscribed THEN 1 ELSE 0

Publish ==
  /\ published < MaxEvents
  /\ published' = published + 1
  /\ broadcasts' = broadcasts \o
       [i \in 1 .. Bridges |-> [event |-> published + 1, state |-> "new", todo |-> <<>>,
                                 dead |-> {}, calm |-> TRUE]]
  /\ UNCHANGED <<subscribed, endpoint, clients, draining, inbox, missed>>

(* Broadcast b goes on with the clients in todo until a send suspends, or to  *)
(* the end, when it drops the clients whose send failed.  A send to a client  *)
(* that others wait for waits behind them; one to a broken connection raises. *)
(* (A bug: one failed send ends the broadcast.)                               *)
Connected(c) == phase[c] = "live" /\ alive[c]

GoesOnWhile(failures) == failures = {}
GoesOn(failures) == TRUE

Run(b, todo, dead, waiting) ==
  \E sent \in 0 .. Len(todo) :
    LET tried == {todo[i] : i \in 1 .. sent}
        written == {c \in tried \union {todo[i] : i \in {sent + 1} \cap DOMAIN todo} :
                      Connected(c)}
        failures == {c \in tried : ~Connected(c)}
        dropped == dead \union failures
    IN  /\ \A c \in tried : Connected(c) => waiting[c] = <<>>
        /\ inbox' = [c \in Conns |->
             IF c \in written THEN Append(inbox[c], [by |-> b, calm |-> broadcasts[b].calm])
             ELSE inbox[c]]
        /\ \/ /\ sent = Len(todo) \/ ~GoesOn(failures)
              /\ clients' \in Remaining(dropped)
              /\ broadcasts' = [IF clients' = clients THEN broadcasts ELSE Disturbed
                                 EXCEPT ![b] = [event |-> @.event, state |-> "done",
                                                todo |-> <<>>, dead |-> {}, calm |-> TRUE]]
              /\ draining' = waiting
           \/ /\ sent < Len(todo) /\ GoesOn(failures) /\ Connected(todo[sent + 1])
              /\ broadcasts' = [broadcasts EXCEPT
                   ![b].state = "sending", ![b].dead = dropped,
                   ![b].todo = SubSeq(todo, sent + 1, Len(todo))]
              /\ draining' = [waiting EXCEPT ![todo[sent + 1]] = Append(@, b)]
              /\ UNCHANGED clients

(* The lists a broadcast may go through.  (A bug: in no particular order.)    *)
AnyLists == Orders(Range(clients))
Lists == {clients}

Start(b) ==
  /\ broadcasts[b].state = "new"
  /\ \A a \in 1 .. b - 1 : broadcasts[a].state # "new"
  /\ missed' = [c \in Conns |-> IF phase[c] = "snapshot"
                                THEN missed[c] \union {broadcasts[b].event} ELSE missed[c]]
  /\ \E todo \in Lists : Run(b, todo, {}, draining)
  /\ UNCHANGED <<subscribed, published, endpoint>>

(* The first that waits for c has its send returned, or raised, and goes on.  *)
Resume(c) ==
  /\ draining[c] # <<>>
  /\ LET b == Head(draining[c])
         waiting == [draining EXCEPT ![c] = Tail(@)]
     IN  Run(b, Tail(broadcasts[b].todo),
             broadcasts[b].dead \union (IF alive[c] THEN {} ELSE {c}), waiting)
  /\ UNCHANGED <<subscribed, published, endpoint, missed>>

StartNext == \E b \in DOMAIN broadcasts : Start(b)
EndpointStep(c) == Connect(c) \/ SnapshotSent(c) \/ Notice(c) \/ Unregister(c)

(* The loop runs what is ready; a connection whose client is slow is read in  *)
(* the end, or closed by the server's pings as an abandoned one is, and a     *)
(* client always connects again.  No step repeats within the bounds, so that  *)
(* fairness to their disjunction is fairness to each.                         *)
FeedStep == \/ \E c \in Conns : EndpointStep(c) \/ Break(c) \/ Resume(c)
            \/ StartNext
FeedNext == FeedStep \/ Publish

Fairness == WF_feedVars(FeedStep)

FeedSpec == FeedInit /\ [][FeedNext]_feedVars /\ Fairness

-------------------------------------------------------------------------------
(* No connection is sent an event twice, however often clients come and go,   *)
(* and events reach it in the order in which they were published, unless the  *)
(* connections changed while the late one was under way (ensure_subscribed,   *)
(* _on_event, broadcast).                                                     *)
InOrderOnce ==
  \A c \in Conns, i, j \in 1 .. 2 * MaxEvents :
    i < j /\ j <= Len(inbox[c]) =>
      LET first == broadcasts[inbox[c][i].by].event
          second == broadcasts[inbox[c][j].by].event
      IN  first < second \/ (first > second /\ ~inbox[c][j].calm)

(* Whoever works is registered, and is told of every event: by its snapshot,  *)
(* by a broadcast that reached it, or by one that is about to.  Only an event *)
(* that was broadcast while the snapshot was on its way it never hears of     *)
(* (dashboard_websocket_endpoint, broadcast).                                 *)
Told(c) == (1 .. base[c]) \union {broadcasts[m.by].event : m \in Range(inbox[c])}
Awaited(c) ==
  {b.event : b \in {x \in Range(broadcasts) :
                     x.state = "new" \/ \E k \in 2 .. Len(x.todo) : x.todo[k] = c}}
NobodyLeftOut ==
  \A c \in Conns : Connected(c) =>
    c \in Range(clients) /\ 1 .. published \subseteq Told(c) \union missed[c] \union Awaited(c)

(* In the end, whether events go on or not, exactly the connections that work *)
(* are registered, and each has been told of every event, by its snapshot or  *)
(* by a broadcast, but for the events that were broadcast while its snapshot  *)
(* was on its way: those it never hears of (dashboard_websocket_endpoint).    *)
Latest(u) == <<u, Opens[u]>>
ViewsConverge ==
  <>[](/\ Range(clients) = {Latest(u) : u \in Clients}
       /\ \A u \in Clients :
            alive[Latest(u)] /\ 1 .. published \subseteq Told(Latest(u)) \union missed[Latest(u)])
===============================================================================
