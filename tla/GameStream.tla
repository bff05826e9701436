----------------------------- MODULE GameStream -----------------------------
(***************************************************************************)
(* What one run of the program asks of the host: main() of src/src/main.c  *)
(* with the requests of src/libgamestream/client.c.  Programs run one      *)
(* after the other and share with the next one only the client's identity  *)
(* on disk and what the host remembers.                                    *)
(*                                                                         *)
(* Every request may be lost, before it reached the host or on the way     *)
(* back; the program may be killed between two of them; and at the host    *)
(* somebody may forget this client, or start and quit applications.        *)
(***************************************************************************)
EXTENDS Naturals

CONSTANTS
  Apps,     \* the applications in the host's list
  NoApp,
  Orders    \* the command lines, records of:
            \*   action   "pair", "unpair", "list", "stream" or "quit"
            \*   app      the application to stream, in the list or not
            \*   version  the host's version is supported, or need not be
            \*   mode     so is the resolution

ASSUME GameStreamAssumption ==
  /\ NoApp \notin Apps
  /\ \A o \in Orders : /\ o.action \in {"pair", "unpair", "list", "stream", "quit"}
                       /\ {o.version, o.mode} \subseteq BOOLEAN

VARIABLES
  identity,  \* the certificate and the key on disk: "none", "opened" (two empty
             \* files), "certOnly", "whole"
  host,      \* what the host remembers: is this client paired, which game runs
  server,    \* SERVER_DATA: what the program believes of it
  proc       \* the program: where it is, its order, the phase of its handshake,
             \* what it printed of a pairing, whether a request of it was lost,
             \* and whether somebody changed the host meanwhile

gsVars == <<identity, host, server, proc>>

Nothing == [paired |-> FALSE, game |-> NoApp]
Idle == [pc |-> "idle", order |-> NoApp, phase |-> 0, said |-> "nothing",
         lost |-> FALSE, meddled |-> FALSE]

GSInit ==
  /\ identity = "none"
  /\ host = Nothing
  /\ server = Nothing
  /\ proc = Idle

At(pc) == proc.pc = pc
Goto(pc) == proc' = [proc EXCEPT !.pc = pc]
GotoLost(pc) == proc' = [proc EXCEPT !.pc = pc, !.lost = TRUE]

\* The program ends; what it said stays on the terminal.
Exit(said) == proc' = [Idle EXCEPT !.said = said]

-----------------------------------------------------------------------------
(* The host.                                                               *)

\* Over HTTPS the host answers a paired client that proves to be it.
KnowsUs == host.paired /\ identity = "whole"

\* A request that would have left the host as h is lost, or its answer is.
LostWith(h) == host' \in {host, h}

Forget == [host EXCEPT !.paired = FALSE]

Meddle ==
  /\ \/ host' = Forget
     \/ \E g \in Apps \cup {NoApp} : host' = [host EXCEPT !.game = g]
  /\ host' # host
  /\ proc' = [proc EXCEPT !.meddled = TRUE]
  /\ UNCHANGED <<identity, server>>

-----------------------------------------------------------------------------
(* gs_init.                                                                *)

Begin(order) ==
  /\ At("idle")
  /\ proc' = [Idle EXCEPT !.pc = "loadCert", !.order = order]
  /\ server' = Nothing
  /\ UNCHANGED <<identity, host>>

\* load_cert: a certificate is made when there is no file of one, and what is
\* there is taken as it is: an empty certificate ends the program, an empty key
\* goes unnoticed.
LoadCert ==
  /\ At("loadCert")
  /\ \/ identity = "none" /\ identity' = "opened" /\ Goto("saveCert")
     \/ identity = "opened" /\ UNCHANGED identity /\ Exit("nothing")
     \/ identity \in {"certOnly", "whole"} /\ UNCHANGED identity /\ Goto("infoPort")
  /\ UNCHANGED <<host, server>>

\* mkcert_save: both files are opened before one is written.
SaveCert ==
  /\ At("saveCert")
  /\ identity' = "certOnly"
  /\ Goto("saveKey")
  /\ UNCHANGED <<host, server>>

SaveKey ==
  /\ At("saveKey")
  /\ identity' = "whole"
  /\ Goto("infoPort")
  /\ UNCHANGED <<host, server>>

\* Over HTTP the host does not reliably say that the client is paired.
Answer(https) == [paired : IF https THEN {TRUE} ELSE {FALSE, host.paired}, game : {host.game}]

\* load_serverinfo: what is known of the server changes when all of it is valid.
InfoAnswered(https) ==
  /\ https => KnowsUs
  /\ server' \in Answer(https)
  /\ UNCHANGED <<identity, host>>

InfoFailed(https) == UNCHANGED <<identity, host, server>>

\* An HTTPS request of a client the host does not know fails without being lost.
GotoFailed(https, pc) == IF https /\ ~KnowsUs THEN Goto(pc) ELSE GotoLost(pc)

\* load_server_status: HTTP for the port of HTTPS, then HTTPS, then HTTP again.
InfoPort ==
  /\ At("infoPort")
  /\ \/ InfoAnswered(FALSE) /\ Goto("infoHttps")
     \/ InfoFailed(FALSE) /\ Exit("nothing")

\* The version is looked at once there is an answer.
GotoAct == IF proc.order.version THEN Goto("act") ELSE Exit("nothing")

InfoHttpOnly ==              \* variant: the second request goes over HTTP too
  /\ At("infoHttps")
  /\ \/ InfoAnswered(FALSE) /\ GotoAct
     \/ InfoFailed(FALSE) /\ GotoFailed(FALSE, "infoHttp")

InfoHttps ==
  /\ At("infoHttps")
  /\ \/ InfoAnswered(TRUE) /\ GotoAct
     \/ InfoFailed(TRUE) /\ GotoFailed(TRUE, "infoHttp")

InfoHttp ==
  /\ At("infoHttp")
  /\ \/ InfoAnswered(FALSE) /\ GotoAct
     \/ InfoFailed(FALSE) /\ Exit("nothing")

-----------------------------------------------------------------------------
(* The actions of main.                                                    *)

\* pair_check, and for a stream the options that only turn out wrong now.
PairCheck ==
  /\ At("act")
  /\ proc.order.action \in {"list", "stream", "quit"}
  /\ \/ /\ server.paired
        /\ Goto(IF proc.order.action = "quit" THEN "cancel" ELSE "applist")
     \/ ~server.paired /\ Exit("nothing")
     \/ proc.order.action = "stream" /\ Exit("nothing")
  /\ UNCHANGED <<identity, host, server>>

\* gs_unpair, or gs_pair up to its first request: a client that is paired is told
\* so, but goes through the clean-up of a failed pairing first.
PairOrUnpair ==
  /\ At("act")
  /\ proc.order.action \in {"pair", "unpair"}
  /\ IF proc.order.action = "pair" /\ ~server.paired
       THEN proc' = [proc EXCEPT !.pc = "pair", !.phase = 1]
       ELSE Goto("unpair")
  /\ UNCHANGED <<identity, host, server>>

-----------------------------------------------------------------------------
(* gs_pair.  The phases: 1 getservercert, answered when the PIN was typed  *)
(* in at the host, 2 clientchallenge, 3 serverchallengeresp, after which   *)
(* both signatures are checked and made, 4 clientpairingsecret, with which *)
(* the host takes the client in, and 5 pairchallenge, over HTTPS.          *)

Accepted == IF proc.phase = 4 THEN [host EXCEPT !.paired = TRUE] ELSE host

PairAnswered ==
  /\ At("pair")
  /\ proc.phase = 3 => identity = "whole"
  /\ proc.phase = 5 => KnowsUs
  /\ host' = Accepted
  /\ IF proc.phase = 5
       THEN server' = [server EXCEPT !.paired = TRUE] /\ Exit("paired")
       ELSE UNCHANGED server /\ proc' = [proc EXCEPT !.phase = @ + 1]
  /\ UNCHANGED identity

PairRefusedGoesOn ==         \* variant: `paired' in the answer is not looked at
  /\ At("pair")
  /\ IF proc.phase = 5 THEN Exit("paired") ELSE proc' = [proc EXCEPT !.phase = @ + 1]
  /\ UNCHANGED <<identity, host, server>>

\* The host says no, or its answer does not pass a check.
PairRefused ==
  /\ At("pair")
  /\ Goto("unpair")
  /\ UNCHANGED <<identity, host, server>>

PairLost ==
  /\ At("pair")
  /\ LostWith(Accepted)
  /\ GotoLost("unpair")
  /\ UNCHANGED <<identity, server>>

\* gs_unpair: over HTTP, for whoever asks.
Unpair ==
  /\ At("unpair")
  /\ \E lost \in BOOLEAN :
       /\ IF lost THEN LostWith(Forget) ELSE host' = Forget
       /\ proc' = [Idle EXCEPT
                     !.said = IF proc.order.action = "pair" THEN "failed" ELSE "nothing",
                     !.lost = lost]
  /\ UNCHANGED <<identity, server>>

-----------------------------------------------------------------------------
(* Listing, starting and quitting applications, all over HTTPS.            *)

\* gs_applist, and get_app_id for a stream.
AppListed ==
  /\ At("applist")
  /\ KnowsUs
  /\ IF proc.order.action = "stream" /\ proc.order.app \in Apps
       THEN Goto("start") ELSE Exit("nothing")
  /\ UNCHANGED <<identity, host, server>>

AppListFails ==
  /\ At("applist")
  /\ Exit("nothing")
  /\ UNCHANGED <<identity, host, server>>

Resuming == server.game # NoApp

\* The host launches when nothing runs, and resumes what runs, whichever the
\* application asked for.
Runs == IF Resuming THEN host ELSE [host EXCEPT !.game = proc.order.app]

StartAccepted ==
  /\ At("start")
  /\ proc.order.mode
  /\ KnowsUs /\ (Resuming <=> host.game # NoApp)
  /\ host' = Runs
  /\ server' = [server EXCEPT !.game = proc.order.app]
  /\ Goto("streaming")
  /\ UNCHANGED identity

\* The mode is wrong, the host refuses, or a message is lost.
StartFails ==
  /\ At("start")
  /\ host' = host \/ (proc.order.mode /\ KnowsUs /\ LostWith(Runs))
  /\ Exit("nothing")
  /\ UNCHANGED <<identity, server>>

\* gs_quit_app.  Nobody looks at what it returns.
CancelAnswered == KnowsUs /\ host' = [host EXCEPT !.game = NoApp]
CancelFails == host' = host \/ CancelAnswered

Quit ==
  /\ At("cancel")
  /\ CancelAnswered \/ CancelFails
  /\ Exit("nothing")
  /\ UNCHANGED <<identity, server>>

-----------------------------------------------------------------------------
(* The steps that do not depend on a session, and those that lead to one.  *)

GSInitialise == LoadCert \/ SaveCert \/ SaveKey \/ InfoPort \/ InfoHttps \/ InfoHttp

Ask == PairCheck \/ PairOrUnpair \/ PairAnswered \/ PairRefused \/ PairLost \/ Unpair \/ Quit

Start == AppListed \/ AppListFails \/ StartAccepted \/ StartFails

\* Killed before there is a loop to read signals.
Kill == ~At("idle") /\ ~At("streaming") /\ Exit("nothing") /\ UNCHANGED <<identity, host, server>>

-----------------------------------------------------------------------------
GSTypeOK ==
  /\ identity \in {"none", "opened", "certOnly", "whole"}
  /\ {host.paired, server.paired} \subseteq BOOLEAN
  /\ host.game \in Apps \cup {NoApp}
  /\ proc.order \in Orders \cup {NoApp}
  /\ proc.pc = "pair" => proc.phase \in 1 .. 5
  /\ proc.said \in {"nothing", "paired", "failed"}
=============================================================================
