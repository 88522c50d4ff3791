------------------------------- MODULE MCTcp -------------------------------
(***************************************************************************)
(* One connection in one of five usages, chosen at the start: two threads  *)
(* that send; the same with a user who closes; a synchronous sender; one   *)
(* sender with reconnect; one sender over TLS, with or without reconnect.  *)
(***************************************************************************)
EXTENDS TlsSocket
VARIABLE usage

mcvars == <<vars, tlsVars, usage>>

MCInit ==
    /\ Init /\ TlsInit /\ usage \in {"stream", "close", "sync", "reconnect", "tls"}
    /\ usage = "reconnect" => reconn_flag
    /\ reconn_flag => usage \in {"reconnect", "tls"}

Idle(T) == \A t \in T : pc'[t] = "idle"
Sends(n) == accepted' + Cardinality(Begun') <= n
MCNext ==
    /\ UNCHANGED usage
    /\ IF usage = "tls" THEN TlsNext ELSE Next /\ UNCHANGED tlsVars
    /\ usage # "sync" => Idle(SyncSenders)
    /\ usage = "sync" => Idle(Senders)
    /\ usage \in {"reconnect", "tls"} => Idle(Senders \ {CHOOSE t \in Senders : TRUE})
    /\ usage \in {"stream", "sync", "reconnect"} \/ reconn_flag => closes' = 0
    /\ usage = "close" => Sends(MaxUnits - 1)
    /\ usage = "reconnect" => Sends(MaxUnits - 1) \/ connects' = 1
    /\ usage = "reconnect" /\ connects > 1 => Sends(1) \/ Begun' \subseteq Begun
    /\ usage = "tls" => Sends(1) /\ connects' < MaxConnects
    /\ connects < MaxConnects          \* bound: the last socket is not followed

MCWorker == IF usage = "tls" THEN TlsWorker ELSE Worker /\ UNCHANGED tlsVars

(* The worker's thread runs whatever is ready, the kernel completes what   *)
(* it can complete (the peer keeps reading), a thread inside msend()       *)
(* returns from it.  Nobody is obliged to start a send, to close or to     *)
(* keep the connection up; an address that is resolved again and again     *)
(* resolves in the end.                                                    *)
MCSpec == /\ MCInit /\ [][MCNext]_mcvars
          /\ WF_mcvars(UNCHANGED usage /\ MCWorker)
          /\ WF_vars(ReadReady) /\ WF_vars(WriteReady) /\ WF_vars(ConnectReady)
          /\ WF_mcvars(UNCHANGED usage /\ ShakeReady)
          /\ WF_vars(TimerReady) /\ SF_vars(OnTimerConnect)
          /\ \A t \in Senders : /\ WF_vars(MsendPush(t)) /\ WF_vars(MsendPost(t))
                                /\ SF_vars(MsendLock(t))

(* Without close() and reconnect an async_write is outstanding exactly     *)
(* when is_writting says so, and the wire, the write in progress and       *)
(* send_buffer hold together all accepted units in order.  A synchronous   *)
(* sender loses nothing while its connection is open.  Until close() is    *)
(* called or a synchronous write fails half-way, no socket's wire repeats  *)
(* a unit or puts it before an earlier one, and without reconnect none is  *)
(* missing between two others.                                             *)
StreamKept ==
    /\ usage = "stream" => OneWriter /\ StreamIntact
    /\ usage = "sync" => NothingLost
    /\ closes = 0 /\ ~torn => WireInOrder

(* An asynchronous sender's units always have somebody who writes them, on *)
(* a connection without reconnect: with it, a write error leaves           *)
(* is_writting set, and on the next socket nobody ever writes again.       *)
NothingStranded == usage # "sync" /\ ~reconn_flag => NoStrandedData

(* A connection that is up without reconnect has exactly one read          *)
(* outstanding, so that it sees its peer close, and hands no data to its   *)
(* user after EVT_DISCONNECT.  Over TLS nothing is announced, read or      *)
(* written before a handshake has succeeded.                               *)
UpIsRead ==
    /\ OneReader
    /\ ~reconn_flag => DataOnlyWhileUp
    /\ usage = "tls" =>
        /\ phase = "up" \/ wire # <<>> => ssl_shakehand
        /\ phase = "up" /\ ~reconn_flag =>
               ~shaking /\ reads + Cardinality(Queued("READ")) = 1

(* Two senders and a connection that nobody closes locally implement the   *)
(* abstract connection.                                                    *)
ImplementsConnectionSpec ==
    Promise!Init /\ [][usage = "stream" => Promise!Next]_(Promise!vars)

(* An open connection without reconnect keeps no unit of an asynchronous   *)
(* sender in send_buffer for ever.                                         *)
SendReachesWire ==
    (usage \in {"stream", "close"} /\ socket_status = "OPEN" /\ send_buffer # <<>>)
        ~> (socket_status # "OPEN" \/ send_buffer = <<>>)

(* With reconnect enabled, a connection that failed or broke is opened     *)
(* again or keeps trying.                                                  *)
ComesBack ==
    (usage = "reconnect" /\ socket_status \in {"RECONNECT", "CLOSED"})
        ~> (socket_status = "OPEN" \/ connects = MaxConnects)
=============================================================================
