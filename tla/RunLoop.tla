------------------------------- MODULE RunLoop -------------------------------
(***************************************************************************)
(* The control of mysync: main, run_prepare and run_loop (mysync.c), the   *)
(* signal flags (ms_signal.c) and the connection to the master (ms_net.c), *)
(* down to what one turn of the loop does with is_connected and the flags. *)
(* What is read and stored is Replication's subject.                       *)
(***************************************************************************)
EXTENDS Naturals, TLAPS

CONSTANTS
  LongBits,     \* width of unsigned long, the type of packet_error
  Configs,      \* number of versions the configuration file goes through
  BadConfigs,   \* the versions mysync_conf_load rejects
  MaxLinkFaults \* bound: connections the network or the master ends

ASSUME LongBitsAssumption == LongBits \in {32, 64}
ASSUME ConfigsAssumption ==
  Configs \in Nat \ {0} /\ BadConfigs \subseteq 2 .. Configs
ASSUME MaxLinkFaultsAssumption == MaxLinkFaults \in Nat

VARIABLES
  pc,           \* where the process is: see TypeOK
  is_connected,
  link,         \* the socket, once a dump was asked for on it
  ms_stop, ms_reload,
  cf,           \* the version of the configuration file on disk
  conf,         \* the version that is loaded
  linkFaults

vars == <<pc, is_connected, link, ms_stop, ms_reload, cf, conf, linkFaults>>
flags == <<ms_stop, ms_reload>>
net == <<is_connected, link>>

(* mysync_conf_load has succeeded in main. *)
Init ==
  /\ pc = "prepare"
  /\ is_connected = FALSE /\ link = "none"
  /\ ms_stop = FALSE /\ ms_reload = FALSE
  /\ cf = 1 /\ conf = 1
  /\ linkFaults = 0

-----------------------------------------------------------------------------
(* The surroundings (external): the operator and the network.              *)

EditConf ==
  /\ cf < Configs /\ cf' = cf + 1
  /\ UNCHANGED <<pc, net, flags, conf, linkFaults>>

(* The connection is lost, or the master ends the session with an end      *)
(* packet ("end").                                                         *)
LinkFails ==
  /\ link = "up" /\ linkFaults < MaxLinkFaults
  /\ link' \in {"lost", "end"}
  /\ linkFaults' = linkFaults + 1
  /\ UNCHANGED <<pc, is_connected, flags, cf, conf>>

-----------------------------------------------------------------------------
(* signal_handler runs between any two steps.  SIGUSR2 sets a flag that    *)
(* nobody reads and has no action here.                                    *)
SignalReload ==
  /\ pc # "gone" /\ ms_reload' = TRUE
  /\ UNCHANGED <<pc, net, ms_stop, cf, conf, linkFaults>>

SignalStop ==
  /\ pc # "gone" /\ ms_stop' = TRUE
  /\ UNCHANGED <<pc, net, ms_reload, cf, conf, linkFaults>>

-----------------------------------------------------------------------------
(* Faulty: a reload asked for meanwhile is forgotten.                      *)
RunPrepareClearsReload(ok) ==
  /\ pc = "prepare"
  /\ is_connected' = ok
  /\ link' = IF ok THEN "silent" ELSE "none"
  /\ pc' = IF ok THEN "tables" ELSE "gone"
  /\ ms_reload' = FALSE
  /\ UNCHANGED <<ms_stop, cf, conf, linkFaults>>

(* run_prepare: connect, check the master, open the database.  Any failure *)
(* is exit(-1).                                                            *)
RunPrepare(ok) ==
  /\ pc = "prepare"
  /\ is_connected' = ok
  /\ link' = IF ok THEN "silent" ELSE "none"
  /\ pc' = IF ok THEN "tables" ELSE "gone"
  /\ UNCHANGED <<flags, cf, conf, linkFaults>>

(* sync_one_table_info asks for the columns on a connection of its own,    *)
(* for which no timeout is set: run_prepare is in "tables" and the         *)
(* handler of a table map in "columns" until the master answers or that    *)
(* connection fails, which may be never.  run_prepare then asks for the    *)
(* dump.                                                                   *)
TablesRead(ok) ==
  /\ pc = "tables"
  /\ is_connected' = ok
  /\ link' = IF ok THEN "up" ELSE "none"
  /\ pc' = IF ok THEN "while" ELSE "gone"
  /\ UNCHANGED <<flags, cf, conf, linkFaults>>

ColumnsRead ==
  /\ pc = "columns"
  /\ pc' = "flags"
  /\ UNCHANGED <<net, flags, cf, conf, linkFaults>>

(* while (!ms_stop) *)
TestStop ==
  /\ pc = "while"
  /\ IF ms_stop
     THEN pc' = "gone" /\ is_connected' = FALSE /\ link' = "none"
     ELSE pc' = "handler" /\ UNCHANGED net
  /\ UNCHANGED <<flags, cf, conf, linkFaults>>

(* Faulty: connect_to_master fails and is_connected is set.                *)
ReconnectLeavesSet(result) ==
  /\ pc = "handler" /\ ~is_connected
  /\ is_connected' = TRUE
  /\ link' = IF result = "dumping" THEN "up" ELSE "none"
  /\ pc' = IF result = "dumping" THEN "handler" ELSE "flags"
  /\ UNCHANGED <<flags, cf, conf, linkFaults>>

(* event_handler without a connection: reconnect_to_master.  If it         *)
(* succeeds the handler goes on to read, if not it sleeps a second.  One   *)
(* failure leaves is_connected set, on a socket on which no dump was asked *)
(* for: sync_binlog_info has no memory for the binlog name, or SHOW MASTER *)
(* STATUS has no row.                                                      *)
Reconnect(result) ==
  /\ pc = "handler" /\ ~is_connected
  /\ is_connected' = (result # "failed")
  /\ link' = CASE result = "dumping" -> "up"
               [] result = "no name" -> "silent"
               [] result = "failed" -> "none"
  /\ pc' = IF result = "dumping" THEN "handler" ELSE "flags"
  /\ UNCHANGED <<flags, cf, conf, linkFaults>>

ReconnectResult == {"dumping", "no name", "failed"}

Reading == pc = "handler" /\ is_connected

(* An event arrives and is dispatched; it may be the table map of a table  *)
(* whose columns have to be read again.                                    *)
ReadEvent ==
  /\ Reading /\ link = "up"
  /\ pc' \in {"flags", "columns"}
  /\ UNCHANGED <<net, flags, cf, conf, linkFaults>>

(* master_save_read keeps the result of cli_safe_read in a uint32_t and    *)
(* compares it with packet_error, an unsigned long of all ones: they are   *)
(* equal only where unsigned long has 32 bits.  Where they are not,        *)
(* event_handler drops the "event" in its sanity check.                    *)
SeesReadError == LongBits = 32

(* The client library closes the socket with the first error.              *)
ReadError ==
  /\ Reading /\ link \in {"lost", "closed"}
  /\ link' = "closed"
  /\ is_connected' = ~SeesReadError
  /\ pc' = "flags"
  /\ UNCHANGED <<flags, cf, conf, linkFaults>>

(* Faulty: an end packet does not clear is_connected; there is no read     *)
(* timeout.                                                                *)
ReadEndStays ==
  /\ Reading /\ link = "end"
  /\ pc' = "flags"
  /\ UNCHANGED <<net, flags, cf, conf, linkFaults>>
NoReadTimeout == FALSE

ReadEnd ==
  /\ Reading /\ link = "end"
  /\ is_connected' = FALSE
  /\ pc' = "flags"
  /\ UNCHANGED <<link, flags, cf, conf, linkFaults>>

(* Nothing arrives within the read timeout, which is an error as well.     *)
ReadTimesOut ==
  /\ Reading /\ link \in {"up", "silent"}
  /\ link' = "closed"
  /\ is_connected' = ~SeesReadError
  /\ pc' = "flags"
  /\ UNCHANGED <<flags, cf, conf, linkFaults>>

(* if (ms_reload) ms_reload = 0, before the file is read.                  *)
TestReload ==
  /\ pc = "flags"
  /\ ms_reload' = FALSE
  /\ pc' = IF ms_reload THEN "load" ELSE "while"
  /\ UNCHANGED <<net, ms_stop, cf, conf, linkFaults>>

(* Faulty: run_prepare follows without disconnect_to_master.               *)
LoadConfStaysConnected ==
  /\ pc = "load"
  /\ IF cf \in BadConfigs
     THEN pc' = "while" /\ UNCHANGED conf
     ELSE pc' = "prepare" /\ conf' = cf
  /\ UNCHANGED <<net, flags, cf, linkFaults>>

(* mysync_conf_load; a file it rejects leaves everything as it is.         *)
LoadConf ==
  /\ pc = "load"
  /\ IF cf \in BadConfigs
     THEN pc' = "while" /\ UNCHANGED <<net, conf>>
     ELSE /\ pc' = "prepare" /\ conf' = cf
          /\ is_connected' = FALSE /\ link' = "none"
  /\ UNCHANGED <<flags, cf, linkFaults>>

Next ==
  \/ EditConf \/ LinkFails
  \/ SignalReload \/ SignalStop
  \/ \E ok \in BOOLEAN : RunPrepare(ok) \/ TablesRead(ok)
  \/ ColumnsRead
  \/ \E result \in ReconnectResult : Reconnect(result)
  \/ TestStop
  \/ ReadEvent \/ ReadError \/ ReadEnd \/ ReadTimesOut
  \/ TestReload
  \/ LoadConf

Spec == Init /\ [][Next]_vars

(* The process is scheduled and a read ends at the latest with the read    *)
(* timeout; an event need never arrive.  The master accepts a connection   *)
(* and a dump request if it is asked again and again, and memory comes     *)
(* free.  Nothing makes it answer on the connection that has no timeout.   *)
Fairness ==
  /\ \A ok \in BOOLEAN : WF_vars(RunPrepare(ok))
  /\ WF_vars(TestStop)
  /\ WF_vars(\E result \in ReconnectResult : Reconnect(result))
  /\ SF_vars(Reconnect("dumping"))
  /\ WF_vars(ReadError) /\ WF_vars(ReadEnd) /\ WF_vars(ReadTimesOut)
  /\ WF_vars(TestReload)
  /\ WF_vars(LoadConf)

FairSpec == Spec /\ Fairness

-----------------------------------------------------------------------------
(* The state has its type. *)
TypeOK ==
  /\ pc \in {"prepare", "tables", "columns", "while", "handler", "flags", "load", "gone"}
  /\ is_connected \in BOOLEAN
  /\ link \in {"none", "up", "silent", "lost", "end", "closed"}
  /\ pc \in {"prepare", "gone"} => link = "none"
  /\ ms_stop \in BOOLEAN /\ ms_reload \in BOOLEAN
  /\ cf \in 1 .. Configs /\ conf \in 1 .. Configs
  /\ linkFaults \in 0 .. MaxLinkFaults

(* is_connected promises event_handler a socket to read from: whatever way *)
(* a reconnect, a read or a reload fails, it is set on none that was       *)
(* closed, but for the read errors that a 64-bit long hides.               *)
ConnectedMeansOpen ==
  is_connected => link # "none" /\ (link = "closed" => ~SeesReadError)

(* mysync waits for the columns of a table for ever.                       *)
Hangs == <>[](pc \in {"tables", "columns"})

(* A reload asked for is not lost: the file as it was when SIGUSR1 came,   *)
(* or a later one, is loaded, also if the signal comes while mysync is     *)
(* reloading already, unless mysync hangs.                                 *)
ReloadTakesEffect ==
  Hangs \/ \A v \in (1 .. Configs) \ BadConfigs :
    (ms_reload /\ cf = v /\ pc # "gone") ~> (conf = v \/ cf # v \/ pc = "gone")

(* A stop signal ends the process, even when the session is silent or      *)
(* gone, or the configuration is being reloaded again and again, unless    *)
(* mysync hangs in sync_one_table_info.                                    *)
StopHonoured == Hangs \/ (ms_stop ~> pc = "gone")

(* A session that ends, or on which no dump was asked for, is replaced by  *)
(* a new one.  event_handler relies on it: it is "blocked when waiting     *)
(* binglog data" (ms_event.c:118) and reconnects only if is_connected is   *)
(* false.  Excepted is a mysync that hangs in sync_one_table_info.         *)
LinkRecovers ==
  Hangs \/ (link \in {"silent", "lost", "end", "closed"} ~> (link = "up" \/ pc = "gone"))

-----------------------------------------------------------------------------
(* Proofs, for every width of long, every sequence of configurations and   *)
(* any number of link faults.                                              *)

LEMMA InitInv == Init => TypeOK /\ ConnectedMeansOpen
<1> SUFFICES ASSUME Init PROVE TypeOK /\ ConnectedMeansOpen
  OBVIOUS
<1>1. 1 \in 1 .. Configs
  BY ConfigsAssumption
<1>2. 0 \in 0 .. MaxLinkFaults
  BY MaxLinkFaultsAssumption
<1>3. QED
  BY <1>1, <1>2 DEF Init, TypeOK, ConnectedMeansOpen

(* Steps of the surroundings and of the signal handler. *)
LEMMA OutsideInv ==
  ASSUME TypeOK, ConnectedMeansOpen,
         EditConf \/ LinkFails \/ SignalReload \/ SignalStop
  PROVE  TypeOK' /\ ConnectedMeansOpen'
<1>1. CASE EditConf
  BY <1>1, ConfigsAssumption
  DEF EditConf, TypeOK, ConnectedMeansOpen, flags, net
<1>2. CASE LinkFails
  BY <1>2, MaxLinkFaultsAssumption
  DEF LinkFails, TypeOK, ConnectedMeansOpen, flags
<1>3. CASE SignalReload
  BY <1>3 DEF SignalReload, TypeOK, ConnectedMeansOpen, net
<1>4. CASE SignalStop
  BY <1>4 DEF SignalStop, TypeOK, ConnectedMeansOpen, net
<1>5. QED
  BY <1>1, <1>2, <1>3, <1>4

(* Steps that open or close the connection. *)
LEMMA ConnectInv ==
  ASSUME TypeOK, ConnectedMeansOpen,
         \/ \E ok \in BOOLEAN : RunPrepare(ok) \/ TablesRead(ok)
         \/ \E result \in ReconnectResult : Reconnect(result)
         \/ TestStop
         \/ LoadConf
  PROVE  TypeOK' /\ ConnectedMeansOpen'
<1>1. CASE \E ok \in BOOLEAN : RunPrepare(ok) \/ TablesRead(ok)
  <2>1. PICK ok \in BOOLEAN : RunPrepare(ok) \/ TablesRead(ok)
    BY <1>1
  <2>2. CASE ok
    BY <2>1, <2>2 DEF RunPrepare, TablesRead, TypeOK, ConnectedMeansOpen, flags
  <2>3. CASE ~ok
    BY <2>1, <2>3 DEF RunPrepare, TablesRead, TypeOK, ConnectedMeansOpen, flags
  <2>4. QED
    BY <2>2, <2>3
<1>2. CASE \E result \in ReconnectResult : Reconnect(result)
  <2>1. PICK result \in ReconnectResult : Reconnect(result)
    BY <1>2
  <2>2. CASE result = "failed"
    BY <2>1, <2>2 DEF Reconnect, TypeOK, ConnectedMeansOpen, flags
  <2>3. CASE result = "dumping"
    BY <2>1, <2>3 DEF Reconnect, TypeOK, ConnectedMeansOpen, flags
  <2>4. CASE result = "no name"
    BY <2>1, <2>4 DEF Reconnect, TypeOK, ConnectedMeansOpen, flags
  <2>5. QED
    BY <2>2, <2>3, <2>4 DEF ReconnectResult
<1>3. CASE TestStop
  BY <1>3 DEF TestStop, TypeOK, ConnectedMeansOpen, flags, net
<1>4. CASE LoadConf
  BY <1>4 DEF LoadConf, TypeOK, ConnectedMeansOpen, flags, net
<1>5. QED
  BY <1>1, <1>2, <1>3, <1>4

(* Steps that read from the connection. *)
LEMMA ReadInv ==
  ASSUME TypeOK, ConnectedMeansOpen,
         ReadEvent \/ ColumnsRead \/ ReadError \/ ReadEnd \/ ReadTimesOut \/ TestReload
  PROVE  TypeOK' /\ ConnectedMeansOpen'
<1>1. CASE ReadEvent \/ ColumnsRead
  BY <1>1 DEF ReadEvent, ColumnsRead, Reading, TypeOK, ConnectedMeansOpen, flags, net
<1>2. CASE ReadError \/ ReadTimesOut
  <2>1. link' = "closed" /\ pc' = "flags"
    BY <1>2 DEF ReadError, ReadTimesOut
  <2>2. is_connected' \in BOOLEAN /\ (is_connected' => ~SeesReadError)
    BY <1>2, Zenon DEF ReadError, ReadTimesOut, SeesReadError
  <2>3. QED
    BY <1>2, <2>1, <2>2
    DEF ReadError, ReadTimesOut, TypeOK, ConnectedMeansOpen, SeesReadError, flags
<1>3. CASE ReadEnd
  BY <1>3 DEF ReadEnd, Reading, TypeOK, ConnectedMeansOpen, flags
<1>4. CASE TestReload
  BY <1>4 DEF TestReload, TypeOK, ConnectedMeansOpen, net
<1>5. QED
  BY <1>1, <1>2, <1>3, <1>4

LEMMA NextInv ==
  TypeOK /\ ConnectedMeansOpen /\ [Next]_vars => TypeOK' /\ ConnectedMeansOpen'
<1> SUFFICES ASSUME TypeOK, ConnectedMeansOpen, [Next]_vars
             PROVE  TypeOK' /\ ConnectedMeansOpen'
  OBVIOUS
<1>1. CASE UNCHANGED vars
  BY <1>1 DEF TypeOK, ConnectedMeansOpen, vars
<1>2. CASE Next
  BY <1>2, OutsideInv, ConnectInv, ReadInv DEF Next
<1>3. QED
  BY <1>1, <1>2

(* The flags, the socket and the versions keep their types. *)
THEOREM ControlTyped == Spec => []TypeOK
BY InitInv, NextInv, PTL DEF Spec

(* Where event_handler finds is_connected set (ms_event.c:113) there is a  *)
(* session that was opened and not closed since: not one that a reconnect  *)
(* failed to open, and none that a read error, a read timeout, a stop or a *)
(* reload has closed, as far as master_save_read sees the error.           *)
THEOREM FlagMatchesSocket == Spec => []ConnectedMeansOpen
BY InitInv, NextInv, PTL DEF Spec
=============================================================================
