------------------------------- MODULE Socket -------------------------------
(***************************************************************************)
(* The socket file of the daemon (sector-serve server.rs): Server::new     *)
(* looks for a file, connects to it, removes a dead one, binds, listens    *)
(* and binds the TCP port; SocketGuard removes the file when the Server,   *)
(* or the failing Server::new, is dropped.  The daemons share one path.    *)
(*                                                                         *)
(* "file" holds the daemon whose socket the path names.  "overlapped" and  *)
(* "crashed" record that two daemons were inside Server::new at once and   *)
(* that one was killed: bookkeeping for the properties.                    *)
(***************************************************************************)
CONSTANT Daemons

NoFile == {}

VARIABLES file, pc, overlapped, crashed

vars == <<file, pc, overlapped, crashed>>

Starting == {"connect", "remove", "bind", "listen", "tcp", "undo"}
Labels == Starting \cup {"off", "serving", "closing"}

\* A connection to the path succeeds while the daemon it names has a listener.
Listening(d) == pc[d] \in {"tcp", "serving", "closing"}

TypeOK ==
  /\ file \in {NoFile} \cup {{d} : d \in Daemons}
  /\ pc \in [Daemons -> Labels]
  /\ overlapped \in BOOLEAN /\ crashed \in BOOLEAN

Init ==
  /\ file = NoFile
  /\ pc = [d \in Daemons |-> "off"]
  /\ overlapped = FALSE /\ crashed = FALSE

Goto(d, label) == pc' = [pc EXCEPT ![d] = label]

\* path.exists()
Start(d) ==
  /\ pc[d] = "off"
  /\ Goto(d, IF file = NoFile THEN "bind" ELSE "connect")
  /\ overlapped' = (overlapped \/ \E e \in Daemons : pc[e] \in Starting)
  /\ UNCHANGED <<file, crashed>>

\* A start that removed whatever it found would take the path of a running daemon.
ConnectIgnoresLive(d) ==
  /\ pc[d] = "connect" /\ Goto(d, "remove")
  /\ UNCHANGED <<file, overlapped, crashed>>

\* A live daemon's socket is left alone: SocketInUse.
Connect(d) ==
  /\ pc[d] = "connect"
  /\ Goto(d, IF \E e \in file : Listening(e) THEN "off" ELSE "remove")
  /\ UNCHANGED <<file, overlapped, crashed>>

RemoveFile(d) ==
  /\ pc[d] = "remove"
  /\ file' = NoFile /\ Goto(d, "bind")
  /\ UNCHANGED <<overlapped, crashed>>

\* bind(2) refuses a path that exists; the guard is not there yet.
Bind(d) ==
  /\ pc[d] = "bind"
  /\ \/ file # NoFile /\ Goto(d, "off") /\ UNCHANGED file
     \/ file = NoFile /\ file' = {d} /\ Goto(d, "listen")
  /\ UNCHANGED <<overlapped, crashed>>

Listen(d) ==
  /\ pc[d] = "listen" /\ Goto(d, "tcp")
  /\ UNCHANGED <<file, overlapped, crashed>>

\* The TCP port may be taken: the locals are dropped last one first, the listener
\* before the guard.
BindTcp(d) ==
  /\ pc[d] = "tcp"
  /\ Goto(d, "serving") \/ Goto(d, "undo")
  /\ UNCHANGED <<file, overlapped, crashed>>

\* The guard removes whatever the path names.
DropGuard(d) ==
  /\ pc[d] = "undo"
  /\ file' = NoFile /\ Goto(d, "off")
  /\ UNCHANGED <<overlapped, crashed>>

\* The fields of a Server are dropped in order, the guard before the listener.
Stop(d) ==
  /\ pc[d] = "serving"
  /\ file' = NoFile /\ Goto(d, "closing")
  /\ UNCHANGED <<overlapped, crashed>>

Close(d) ==
  /\ pc[d] = "closing" /\ Goto(d, "off")
  /\ UNCHANGED <<file, overlapped, crashed>>

\* A kill closes every descriptor and leaves the file.
Crash(d) ==
  /\ pc[d] # "off" /\ Goto(d, "off")
  /\ crashed' = TRUE
  /\ UNCHANGED <<file, overlapped>>

Next ==
  \E d \in Daemons :
    \/ Start(d)
    \/ Connect(d)
    \/ RemoveFile(d)
    \/ Bind(d)
    \/ Listen(d)
    \/ BindTcp(d)
    \/ DropGuard(d)
    \/ Stop(d)
    \/ Close(d)
    \/ Crash(d)

Spec == Init /\ [][Next]_vars

---------------------------------------------------------------------------
\* Unless two daemons were starting at the same time, the path names every daemon that
\* serves, so there is one and clients reach it, whatever crashed or was refused before;
\* and without a crash no file outlives the daemons.
SocketOwned ==
  ~overlapped =>
    /\ \A d \in Daemons : pc[d] = "serving" => file = {d}
    /\ (\A d \in Daemons : pc[d] = "off") /\ file # NoFile => crashed
=============================================================================
