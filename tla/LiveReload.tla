----------------------------- MODULE LiveReload -----------------------------
(***************************************************************************)
(* Live reload under `zdc dev`: the watching loop of                       *)
(* src/crates/zdc-dev/src/lib.rs, the generation and the registered        *)
(* streams of server.rs, the resume rule of sse.rs, and the reload client  *)
(* that page.rs adds to every page.                                        *)
(*                                                                         *)
(* The source file is a version number, and what is served is the version  *)
(* it was compiled from.  A save always leaves a new stamp (watch.rs adds  *)
(* the length because a timestamp alone may not).                          *)
(***************************************************************************)
EXTENDS Integers, Sequences, FiniteSets

CONSTANTS
  Page,         \* browser tabs
  NoId,         \* no generation seen yet
  MaxEdits,     \* how often the developer saves
  MaxRestarts   \* how often the server is stopped and started

VARIABLES
  source,       \* the version in the source file
  loop,         \* run: watching, compiling, publishing; down, booting, binding
  stamped,      \* the version the watcher last saw
  built,        \* the version the compiler last read
  site,         \* the version served
  generation,   \* how many times that has changed
  clients,      \* the pages whose stream is registered
  tab,          \* closed, loaded, listening
  shown,        \* the version a page was fetched from
  wire,         \* frames on their way to a page
  lastId,       \* the id the browser would send to reconnect
  met,          \* the generation the reload client remembers
  born,         \* history: the generation a page was fetched under
  orphans,      \* history: the pages fetched before the last restart
  restarts      \* restarts so far

serverVars == <<stamped, built, site, generation, loop, restarts>>
pageVars == <<tab, shown, wire, lastId, met, born, orphans>>
vars == <<source, serverVars, clients, pageVars>>

ASSUME ReloadAssumption ==
  /\ NoId \notin Int
  /\ MaxEdits \in Nat /\ MaxRestarts \in Nat

Up == loop \in {"watching", "compiling", "publishing"}
Frame(name) == [name |-> name, id |-> generation]

-----------------------------------------------------------------------------
(* The developer and the server.                                           *)

Save ==
  /\ source < MaxEdits
  /\ source' = source + 1
  /\ UNCHANGED <<serverVars, clients, pageVars>>

\* Watcher::changed: consuming, the stamp is the new baseline at once.
Changed ==
  /\ loop = "watching" /\ stamped # source
  /\ stamped' = source
  /\ loop' = "compiling"
  /\ UNCHANGED <<source, built, site, generation, restarts, clients, pageVars>>

\* The compiler reads the file some time after it was stamped.
Compile ==
  /\ loop = "compiling"
  /\ built' = source
  /\ loop' = "publishing"
  /\ UNCHANGED <<source, stamped, site, generation, restarts, clients, pageVars>>

\* Mutant: the watcher's baseline is taken again once the build is out.
PublishRestamped ==
  /\ loop = "publishing"
  /\ site' = built
  /\ generation' = generation + 1
  /\ wire' = [w \in Page |->
                IF w \in clients
                  THEN Append(wire[w], [name |-> "reload", id |-> generation + 1])
                  ELSE wire[w]]
  /\ loop' = "watching"
  /\ stamped' = source
  /\ UNCHANGED <<source, built, restarts, clients, tab, shown, lastId, met, born, orphans>>

\* Handle::publish: the site, the generation and every client, under a lock.
Publish ==
  /\ loop = "publishing"
  /\ site' = built
  /\ generation' = generation + 1
  /\ wire' = [w \in Page |->
                IF w \in clients
                  THEN Append(wire[w], [name |-> "reload", id |-> generation + 1])
                  ELSE wire[w]]
  /\ loop' = "watching"
  /\ UNCHANGED <<source, stamped, built, restarts, clients, tab, shown, lastId, met, born, orphans>>

\* Ctrl-C.  Every stream is cut; the generation was only in memory.
Stop ==
  /\ Up /\ restarts < MaxRestarts
  /\ restarts' = restarts + 1
  /\ loop' = "down"
  /\ generation' = 0
  /\ clients' = {}
  /\ wire' = [w \in Page |-> <<>>]
  /\ tab' = [w \in Page |-> IF tab[w] = "listening" THEN "loaded" ELSE tab[w]]
  /\ orphans' = {w \in Page : tab[w] # "closed"}
  /\ UNCHANGED <<source, stamped, built, site, shown, lastId, met, born>>

\* run: the watcher's baseline comes before the first build.
Boot ==
  /\ loop = "down"
  /\ stamped' = source
  /\ loop' = "booting"
  /\ UNCHANGED <<source, built, site, generation, restarts, clients, pageVars>>

Bind ==
  /\ loop = "booting"
  /\ built' = source
  /\ site' = source
  /\ loop' = "watching"
  /\ UNCHANGED <<source, stamped, generation, restarts, clients, pageVars>>

-----------------------------------------------------------------------------
(* A page and its reload stream.                                           *)

\* The page is fetched; its script will open the stream.
Fetch(w) ==
  /\ Up /\ tab[w] = "closed"
  /\ tab' = [tab EXCEPT ![w] = "loaded"]
  /\ shown' = [shown EXCEPT ![w] = site]
  /\ born' = [born EXCEPT ![w] = generation]
  /\ UNCHANGED <<source, serverVars, clients, wire, lastId, met, orphans>>

\* sse::resume: only a header behind the current generation earns a reload.
Resume(seen) == IF seen # NoId /\ seen < generation THEN "reload" ELSE "ready"

\* Mutant: a reconnection is answered, and not registered again.
ListenUnregistered(w) ==
  /\ Up /\ tab[w] = "loaded"
  /\ tab' = [tab EXCEPT ![w] = "listening"]
  /\ clients' = IF lastId[w] = NoId THEN clients \cup {w} ELSE clients
  /\ wire' = [wire EXCEPT ![w] = <<Frame(Resume(lastId[w]))>>]
  /\ UNCHANGED <<source, serverVars, shown, lastId, met, born, orphans>>

\* stream: registered and the generation read, under the lock publish takes.
Listen(w) ==
  /\ Up /\ tab[w] = "loaded"
  /\ tab' = [tab EXCEPT ![w] = "listening"]
  /\ clients' = clients \cup {w}
  /\ wire' = [wire EXCEPT ![w] = <<Frame(Resume(lastId[w]))>>]
  /\ UNCHANGED <<source, serverVars, shown, lastId, met, born, orphans>>

\* location.reload(): the page, its script and its EventSource start over.
Reload(w) ==
  /\ tab' = [tab EXCEPT ![w] = "closed"]
  /\ clients' = clients \ {w}
  /\ wire' = [wire EXCEPT ![w] = <<>>]
  /\ lastId' = [lastId EXCEPT ![w] = NoId]
  /\ met' = [met EXCEPT ![w] = NoId]
  /\ orphans' = orphans \ {w}

Hear(w) ==
  /\ tab[w] = "listening" /\ wire[w] # <<>>
  /\ LET frame == Head(wire[w])
     IN \/ /\ frame.name = "reload" \/ met[w] \notin {NoId, frame.id}
           /\ Reload(w)
        \/ /\ frame.name = "ready" /\ met[w] \in {NoId, frame.id}
           /\ met' = [met EXCEPT ![w] = frame.id]
           /\ lastId' = [lastId EXCEPT ![w] = frame.id]
           /\ wire' = [wire EXCEPT ![w] = Tail(@)]
           /\ UNCHANGED <<tab, clients, orphans>>
  /\ UNCHANGED <<source, serverVars, shown, born>>

\* Mutant: a stream that hung up stays registered.
DropRegistered(w) ==
  /\ tab[w] = "listening"
  /\ tab' = [tab EXCEPT ![w] = "loaded"]
  /\ wire' = [wire EXCEPT ![w] = <<>>]
  /\ UNCHANGED <<source, serverVars, clients, shown, lastId, met, born, orphans>>

\* The connection drops; the browser keeps the last id and reconnects.
Drop(w) ==
  /\ tab[w] = "listening"
  /\ tab' = [tab EXCEPT ![w] = "loaded"]
  /\ clients' = clients \ {w}
  /\ wire' = [wire EXCEPT ![w] = <<>>]
  /\ UNCHANGED <<source, serverVars, shown, lastId, met, born, orphans>>

-----------------------------------------------------------------------------

Init ==
  /\ source = 0 /\ stamped = 0 /\ built = 0 /\ site = 0
  /\ generation = 0 /\ restarts = 0
  /\ loop = "watching"
  /\ clients = {}
  /\ tab = [w \in Page |-> "closed"]
  /\ shown = [w \in Page |-> 0]
  /\ wire = [w \in Page |-> <<>>]
  /\ lastId = [w \in Page |-> NoId]
  /\ met = [w \in Page |-> NoId]
  /\ born = [w \in Page |-> 0]
  /\ orphans = {}

Run == Changed \/ Compile \/ Publish \/ Boot \/ Bind

Next ==
  \/ Save \/ Run \/ Stop
  \/ \E w \in Page : Fetch(w) \/ Listen(w) \/ Hear(w) \/ Drop(w)

Spec == Init /\ [][Next]_vars

\* The watching loop never stops polling, and a stopped server is started.
LiveSpec == Spec /\ WF_vars(Run)

-----------------------------------------------------------------------------

TypeOK ==
  /\ loop \in {"watching", "compiling", "publishing", "down", "booting"}
  /\ {source, stamped, built, site} \subseteq 0 .. MaxEdits
  /\ generation \in Nat
  /\ clients = {w \in Page : tab[w] = "listening"}
  /\ \A w \in Page :
       /\ shown[w] \in 0 .. MaxEdits
       /\ {lastId[w], met[w]} \subseteq Nat \cup {NoId}
       /\ wire[w] \in Seq([name : {"ready", "reload"}, id : Nat])

\* A reload frame, or a ready frame of another generation than was met.
ReloadIsComing(w) ==
  \E i \in 1 .. Len(wire[w]) :
    wire[w][i].name = "reload" \/ wire[w][i].id # met[w]

(* No rebuild is lost on a page that met the generation it was fetched     *)
(* under: whenever its stream is open and the page is not what is served,  *)
(* a reload is on its way, whatever dropped and reconnected in between, as *)
(* long as it is this server that answered the page.                       *)
NoRebuildIsLost ==
  \A w \in Page \ orphans :
    tab[w] = "listening" /\ met[w] # NoId /\ met[w] = born[w] /\ shown[w] # site
      => ReloadIsComing(w)

(* Every save is eventually served, though the file may be saved again     *)
(* between the watcher's stat, the compiler's read and the publication,    *)
(* and the server restarted in between.                                    *)
SavesAreServed == \A v \in 1 .. MaxEdits : (source >= v) ~> (site >= v)

=============================================================================
