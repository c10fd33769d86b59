----------------------------- MODULE HttpServer -----------------------------
(***************************************************************************)
(* The processes of the server of mp1 (server.c): the first one accepts    *)
(* connections and forks a child for each, and its handler of SIGCHLD      *)
(* reaps the children that have ended.  What a child does is left to the   *)
(* modules that extend this one.                                           *)
(*                                                                         *)
(* SIGCHLD is one bit: the end of a child while it is pending leaves no    *)
(* trace, and while the handler runs it is blocked.  accept is restarted   *)
(* after a signal (SA_RESTART).                                            *)
(***************************************************************************)
EXTENDS Naturals, FiniteSets

CONSTANTS
  Conns,  \* the connections of the clients, each with its child if it is forked
  NoConn  \* what new_fd holds when it is closed

ASSUME ConnsAssumption == NoConn \notin Conns

VARIABLES
  waiting,   \* the connections that were not accepted yet
  server,    \* where the first process is, and its new_fd
  alive,     \* the children that run
  zombies,   \* those that have ended and were not waited for
  sigchld,   \* is a SIGCHLD pending?
  handling   \* is the first process in its handler?

loopVars == <<waiting, server, alive, zombies, sigchld, handling>>

LoopType ==
  /\ waiting \subseteq Conns
  /\ server \in [pc: {"accept", "fork", "close"}, new_fd: Conns \cup {NoConn}]
  /\ alive \subseteq Conns /\ zombies \subseteq Conns
  /\ sigchld \in BOOLEAN /\ handling \in BOOLEAN

LoopInit ==
  /\ waiting = Conns
  /\ server = [pc |-> "accept", new_fd |-> NoConn]
  /\ alive = {} /\ zombies = {}
  /\ sigchld = FALSE /\ handling = FALSE

------------------------------------------------------------------------------
(* The main accept() loop; it stands still while the handler runs. *)

Accept(c) ==
  /\ server.pc = "accept" /\ ~handling
  /\ c \in waiting
  /\ server' = [pc |-> "fork", new_fd |-> c]
  /\ waiting' = waiting \ {c}
  /\ UNCHANGED <<alive, zombies, sigchld, handling>>

Fork(c) ==
  /\ server.pc = "fork" /\ ~handling
  /\ c = server.new_fd
  /\ alive' = alive \cup {c}
  /\ server' = [server EXCEPT !.pc = "close"]
  /\ UNCHANGED <<waiting, zombies, sigchld, handling>>

(* fork() returns -1, which is not told apart from the number of a child. *)
ForkFails ==
  /\ server.pc = "fork" /\ ~handling
  /\ server' = [server EXCEPT !.pc = "close"]
  /\ UNCHANGED <<waiting, alive, zombies, sigchld, handling>>


CloseNewFd ==
  /\ server.pc = "close" /\ ~handling
  /\ server' = [pc |-> "accept", new_fd |-> NoConn]
  /\ UNCHANGED <<waiting, alive, zombies, sigchld, handling>>

(* Until the first process closes new_fd, the end of the child does not close
   the connection. *)
HasOpen(c) == c \in waiting \/ server.new_fd = c

AcceptLoop == (\E c \in Conns : Accept(c)) \/ CloseNewFd

------------------------------------------------------------------------------
(* The end of a child, and the handler *)

ChildEnds(c) ==
  /\ c \in alive
  /\ alive' = alive \ {c}
  /\ zombies' = zombies \cup {c}
  /\ sigchld' = TRUE
  /\ UNCHANGED <<waiting, server, handling>>

HandlerStarts ==
  /\ sigchld /\ ~handling
  /\ sigchld' = FALSE /\ handling' = TRUE
  /\ UNCHANGED <<waiting, server, alive, zombies>>

(* Variant for testing NoZombieForgotten: one waitpid for each signal. *)
HandlerReapsOne(c) ==
  /\ handling /\ c \in zombies
  /\ zombies' = zombies \ {c}
  /\ handling' = FALSE
  /\ UNCHANGED <<waiting, server, alive, sigchld>>

HandlerReaps(c) ==
  /\ handling /\ c \in zombies
  /\ zombies' = zombies \ {c}
  /\ UNCHANGED <<waiting, server, alive, sigchld, handling>>

(* waitpid finds no child, or none that has ended. *)
HandlerReturns ==
  /\ handling /\ zombies = {}
  /\ handling' = FALSE
  /\ UNCHANGED <<waiting, server, alive, zombies, sigchld>>

sigchld_handler ==
  HandlerStarts \/ (\E c \in Conns : HandlerReaps(c)) \/ HandlerReturns

------------------------------------------------------------------------------
(* Signals that merge lose no child: as long as one that has ended was not
   waited for, the handler runs or will run again. *)
NoZombieForgotten == zombies # {} => sigchld \/ handling
==============================================================================
