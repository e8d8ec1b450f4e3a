------------------------------ MODULE SmbusHost ------------------------------
(***************************************************************************)
(* The script that makes a log of SMBus transactions out of the guest's    *)
(* accesses to the registers of the host controller (intel_smbus.lua) with *)
(* a machine that guesses where the transaction is (smbus_host.lua).  The  *)
(* controller is in the target; the script only sees what the guest reads  *)
(* and writes.  Writes are seen before they reach the target, reads after. *)
(*                                                                         *)
(* The guest is a driver that looks whether the controller is busy, sets a *)
(* transaction up, starts it, polls until it is over and, if that takes    *)
(* too long, kills it.  It may or may not acknowledge it, read its data or *)
(* release the controller, and clears the status whenever it is idle.  It  *)
(* writes the controller's BAR only while it has no transaction running.   *)
(***************************************************************************)
EXTENDS Naturals, Sequences

CONSTANTS
  Slave,       \* addresses of slaves
  DataByte,    \* values of the first data register: data, or length of a block
  BlockBytes   \* bound: MAX_BLOCK_SRAM

VARIABLES
  host,        \* f.host and the part of f.reg that matters
  ctrl,        \* the controller
  driver,      \* where the guest's driver is
  owed,        \* transactions made that the log does not show yet
  wrong        \* the log showed what was not made, or made differently

smbusVars == <<host, ctrl, driver, owed, wrong>>

Proto == {"quick", "byte_data", "word_data", "block"}
Dir == {"read", "write"}

SmbusInit ==
  \E s \in Slave, v \in DataByte :
    /\ host = [state |-> "idle", signals |-> {}, proto |-> "noop", start_proto |-> "noop",
               slave |-> <<s, "write">>, data0 |-> v, wr_data0 |-> v,
               data0_valid |-> FALSE, data1_valid |-> FALSE, max_index |-> 0,
               block_ptr |-> 0, said |-> <<>>]
    /\ ctrl = [running |-> FALSE, status |-> {}, slave |-> <<s, "write">>, data0 |-> v,
               proto |-> "noop"]
    /\ driver = [at |-> "look", data |-> FALSE]
    /\ owed = <<>> /\ wrong = FALSE

-----------------------------------------------------------------------------
(* smbus_host.lua: the machine                                             *)

host_reading(h) == h.slave[2] = "read"

\* dump_transaction: what the log shows.
Report(h) ==
  [slave |-> h.slave, proto |-> h.proto,
   data |-> IF ~host_reading(h) THEN <<h.wr_data0>>
            ELSE IF h.data0_valid THEN <<h.data0>> ELSE <<>>,
   timeout |-> "timeout" \in h.signals]

dump_transaction(h) == [h EXCEPT !.said = Append(@, Report(h))]

\* host_change_state, for each state that is entered.
EnterIdle(h) == [h EXCEPT !.state = "idle", !.signals = {}]
EnterActive(h) == [h EXCEPT !.state = "active", !.signals = {"inuse"}]
EnterWait(h) == [h EXCEPT !.state = "wait"]
EnterStarted(h) ==
  [h EXCEPT !.state = "started", !.proto = h.start_proto, !.wr_data0 = h.data0,
            !.data0_valid = FALSE, !.data1_valid = FALSE, !.max_index = 0]

\* HOST_COMPLETE and HOST_FAIL jump on at once, so that no access finds the
\* machine in them.
EnterComplete(h) ==
  IF "release" \in h.signals THEN EnterIdle(dump_transaction(h))
  ELSE EnterActive(dump_transaction(h))
EnterFail(h) == EnterActive(dump_transaction(h))

host_read_completed(h) ==
  \/ ~host_reading(h)
  \/ h.proto = "quick"
  \/ h.proto = "byte_data" /\ h.data0_valid
  \/ h.proto = "word_data" /\ h.data0_valid /\ h.data1_valid
  \/ h.proto = "block" /\ h.data0_valid /\ h.max_index >= h.data0

\* host_sync, by state.
SyncIdle(h) ==
  LET claimed == IF "inuse" \in h.signals THEN EnterActive(h) ELSE h
  IN IF "start" \in claimed.signals THEN EnterStarted(claimed) ELSE claimed

SyncActive(h) == IF "start" \in h.signals THEN EnterStarted(h) ELSE h

SyncStarted(h) ==
  IF "timeout" \in h.signals THEN EnterFail(h)
  ELSE IF "done" \in h.signals THEN EnterWait(h) ELSE h

SyncWait(h) ==
  IF "start" \in h.signals THEN EnterStarted(EnterComplete(h))
  ELSE IF "ack" \in h.signals /\ ~host_reading(h) THEN EnterComplete(h)
  ELSE IF "data_write" \in h.signals \/ host_read_completed(h)
  THEN EnterComplete([h EXCEPT !.signals = @ \ {"release"}])
  ELSE h

host_sync(h) ==
  LET a == IF "abort" \in h.signals THEN EnterComplete(h) ELSE h
      b == CASE a.state = "idle" -> SyncIdle(a)
             [] a.state = "active" -> SyncActive(a)
             [] a.state = "started" -> SyncStarted(a)
             [] a.state = "wait" -> SyncWait(a)
  IN [b EXCEPT !.signals = @ \ {"done", "start", "data_write"}]

signal(h, s) == host_sync([h EXCEPT !.signals = @ \cup {s}])

data_write(h) == signal(h, "data_write")
data_read(h) == host_sync([h EXCEPT !.signals = @ \ {"data_write"}])

-----------------------------------------------------------------------------
(* Accesses of the guest: the script's part and the controller's           *)

Busy == "busy" \in ctrl.status

\* A report is right if it is of the transaction that was made; a read may be
\* shown without data.  Killed ones are shown as if they had been completed.
Matches(report, t) ==
  /\ report.slave = t.slave /\ report.proto = t.proto
  /\ t.result # "none"
  /\ t.killed \/ (report.timeout <=> t.result = "fail")
  /\ t.slave[2] = "read" => (report.data = <<>> \/ t.killed \/ report.data = t.data)
  /\ t.slave[2] = "write" => report.data = t.data

\* The script has done its part of an access; what it logged is held against
\* what was made.
Heard(h, made) ==
  LET n == Len(h.said)
  IN /\ host' = [h EXCEPT !.said = <<>>]
     /\ wrong' = (wrong \/ n > Len(made)
                  \/ \E i \in 1..n : i <= Len(made) /\ ~Matches(h.said[i], made[i]))
     /\ owed' = SubSeq(made, n + 1, Len(made))

\* intel_smbus_host_status, a read
StatusRead(h, status) ==
  IF h.state = "idle" THEN signal(h, "inuse")
  ELSE IF h.state # "started" THEN h
  ELSE LET over == "irq" \in status /\ "busy" \notin status
           done == IF over THEN signal(h, "done") ELSE h
       IN IF "fail" \in status THEN signal(done, "timeout") ELSE done

\* intel_smbus_host_status, a write of ones to these bits
StatusWrite(h, bits) ==
  LET a == IF "inuse" \in bits THEN signal(h, "release") ELSE h
      b == IF "fail" \in bits THEN signal(a, "timeout_ack") ELSE a
  IN IF "irq" \in bits THEN signal(b, "ack") ELSE b

\* The driver waits until the controller is not busy.
Look ==
  /\ driver.at = "look"
  /\ Heard(StatusRead(host, ctrl.status), owed)
  /\ driver' = IF Busy THEN driver ELSE [driver EXCEPT !.at = "setup"]
  /\ UNCHANGED ctrl

WriteStatus ==
  /\ driver.at \in {"setup", "over"}
  /\ \E bits \in SUBSET {"irq", "fail", "inuse"} :
       /\ Heard(StatusWrite(host, bits), owed)
       /\ ctrl' = [ctrl EXCEPT !.status = @ \ bits]
  /\ UNCHANGED driver

\* Faulty variant: the new slave is stored before the data write is signalled.
SlaveFirst(h, slave) == data_write([h EXCEPT !.slave = slave])

\* smbus.update_register for SMB_REG_SLAVE
SlaveStored(h, slave) == [data_write(h) EXCEPT !.slave = slave]

WriteSlave ==
  /\ driver.at = "setup"
  /\ \E slave \in Slave \X Dir :
       /\ Heard(SlaveStored(host, slave), owed)
       /\ ctrl' = [ctrl EXCEPT !.slave = slave]
  /\ UNCHANGED driver

\* smbus.update_register for SMB_REG_DATA0
WriteData0 ==
  /\ driver.at = "setup"
  /\ \E v \in DataByte :
       /\ Heard([data_write(host) EXCEPT !.data0 = v, !.data0_valid = TRUE], owed)
       /\ ctrl' = [ctrl EXCEPT !.data0 = v]
  /\ driver' = [driver EXCEPT !.data = TRUE]

\* intel_smbus_host_control with the start bit.  A driver that sends data has
\* written them, and it has cleared the failure of an earlier transaction.
Start(proto) ==
  LET h == data_write([host EXCEPT !.block_ptr = 0])
      t == [slave |-> ctrl.slave, proto |-> proto, data |-> <<ctrl.data0>>,
            result |-> "none", killed |-> FALSE]
  IN /\ driver.at = "setup"
     /\ "fail" \notin ctrl.status
     /\ ctrl.slave[2] = "write" => driver.data
     /\ Heard(signal([h EXCEPT !.start_proto = proto], "start"), Append(owed, t))
     /\ ctrl' = [ctrl EXCEPT !.running = TRUE, !.status = @ \cup {"busy"}, !.proto = proto]
     /\ driver' = [at |-> "run", data |-> FALSE]

Poll ==
  /\ driver.at \in {"run", "killed"}
  /\ Heard(StatusRead(host, ctrl.status), owed)
  /\ driver' = IF Busy THEN driver ELSE [driver EXCEPT !.at = "over"]
  /\ UNCHANGED ctrl

\* intel_smbus_host_control with the kill bit
Kill ==
  /\ driver.at = "run"
  /\ Heard(signal(host, "abort"),
           [i \in 1..Len(owed) |-> IF i < Len(owed) THEN owed[i]
                                   ELSE [owed[i] EXCEPT !.killed = TRUE, !.result = "fail"]])
  /\ ctrl' = IF ctrl.running
             THEN [ctrl EXCEPT !.running = FALSE, !.status = (@ \ {"busy"}) \cup {"fail"}]
             ELSE ctrl
  /\ driver' = [driver EXCEPT !.at = "killed"]

ReadData0 ==
  /\ driver.at = "over"
  /\ Heard(data_read([host EXCEPT !.data0 = ctrl.data0, !.data0_valid = TRUE]), owed)
  /\ UNCHANGED <<ctrl, driver>>

ReadData1 ==
  /\ driver.at = "over"
  /\ Heard(data_read([host EXCEPT !.data1_valid = TRUE]), owed)
  /\ UNCHANGED <<ctrl, driver>>

\* intel_smbus_block_data
ReadBlock ==
  LET seen == IF host.max_index > host.block_ptr THEN host.max_index ELSE host.block_ptr + 1
  IN /\ driver.at = "over" /\ host.block_ptr < BlockBytes
     /\ Heard(data_read([host EXCEPT !.max_index = seen, !.block_ptr = @ + 1]), owed)
     /\ UNCHANGED <<ctrl, driver>>

\* intel_smbus_host_control, a read
ReadControl ==
  /\ driver.at = "over"
  /\ Heard([host EXCEPT !.block_ptr = 0], owed)
  /\ UNCHANGED <<ctrl, driver>>

Leave ==
  /\ driver.at = "over"
  /\ driver' = [driver EXCEPT !.at = "look"]
  /\ UNCHANGED <<host, ctrl, owed, wrong>>

\* The guest writes the controller's BAR, which sets the script up again
\* (intel_smbus_setup, smbus.init).  A line that was still to come is lost.
Setup ==
  /\ driver.at \in {"look", "setup", "over"}
  /\ host' = IF host.state = "idle" THEN host ELSE EnterIdle(host)
  /\ owed' = <<>>
  /\ UNCHANGED <<ctrl, driver, wrong>>

\* The controller ends the transaction; a read puts data into its register.
Finish(result, v) ==
  LET t == [owed[Len(owed)] EXCEPT !.result = result, !.data = <<ctrl'.data0>>]
  IN /\ ctrl.running
     /\ ctrl' = [ctrl EXCEPT !.running = FALSE,
                   !.status = (@ \ {"busy"}) \cup {IF result = "ok" THEN "irq" ELSE "fail"},
                   !.data0 = IF ctrl.slave[2] = "read" /\ result = "ok" THEN v ELSE @]
     /\ owed' = [owed EXCEPT ![Len(owed)] = t]
     /\ UNCHANGED <<host, driver, wrong>>

SmbusNext ==
  \/ Look \/ WriteStatus \/ WriteSlave \/ WriteData0
  \/ \E p \in Proto : Start(p)
  \/ Poll \/ Kill \/ ReadData0 \/ ReadData1 \/ ReadBlock \/ ReadControl \/ Leave
  \/ Setup
  \/ \E r \in {"ok", "fail"}, v \in DataByte : Finish(r, v)

SmbusSpec == SmbusInit /\ [][SmbusNext]_smbusVars

-----------------------------------------------------------------------------

\* The log shows every transaction that was made, once, in order, with its
\* own slave, protocol, direction and outcome and no other's data; at most
\* the last one is still to come, and only a write to the BAR may lose it.
LogTells == ~wrong /\ Len(owed) <= 1
=============================================================================
