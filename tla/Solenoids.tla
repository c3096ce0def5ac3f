------------------------------- MODULE Solenoids -------------------------------
(***************************************************************************)
(* The pressure solenoids: SolenoidController (solenoids/mod.rs) and its    *)
(* exchanges with the TLE8242 (tle8242.rs).  An exchange is a transfer with *)
(* chip select low, which may end well, fail, or be dropped together with   *)
(* the future that waits for it; only a good end raises chip select again.  *)
(* The shift valves are never switched today: shift_valve_flags is NONE.    *)
(***************************************************************************)
EXTENDS Tle8242

VARIABLES
  power,      \* pin_sol_pwr_en
  configured, \* Tle8242.config has been stored
  last,       \* last_mpc and last_spc, in mA
  chip,       \* the currents that the chip holds
  regs,       \* its registers
  selected,   \* chip select is low
  transfer,   \* the exchange under way
  abandoned   \* an exchange failed or was dropped (no variable of the code)

solVars == <<power, configured, last, chip, regs, selected, transfer, abandoned>>

NoTransfer == [at |-> "none", sol |-> "none", ma |-> 0, clean |-> TRUE]

\* Tle8242::write of a current: chip select goes low; if an earlier exchange
\* has left it low, the chip sees no start.
BeginExchange(sol, ma) ==
  /\ transfer = NoTransfer
  /\ transfer' = [at |-> "transfer", sol |-> sol, ma |-> ma, clean |-> ~selected]
  /\ selected' = TRUE
  /\ UNCHANGED <<power, configured, last, chip, regs, abandoned>>

\* The transfer is complete and chip select rises.
ExchangeDone ==
  /\ transfer.at = "transfer"
  /\ selected' = FALSE
  /\ transfer' = [transfer EXCEPT !.at = "settle"]
  /\ chip' \in {[chip EXCEPT ![transfer.sol] = transfer.ma]}
               \cup (IF transfer.clean THEN {} ELSE {chip})
  /\ UNCHANGED <<power, configured, last, regs, abandoned>>

RememberedAsMpc(l, sol, ma) == [l EXCEPT !.mpc = ma]

Remembered(l, sol, ma) == [l EXCEPT ![sol] = ma]

\* After the pause of a microsecond the current is remembered.
Settled ==
  /\ transfer.at = "settle"
  /\ last' = Remembered(last, transfer.sol, transfer.ma)
  /\ transfer' = NoTransfer
  /\ UNCHANGED <<power, configured, chip, regs, selected, abandoned>>

\* An error of the SPI, or the end of a timeout: neither raises chip select.
Abandon ==
  /\ transfer # NoTransfer
  /\ transfer' = NoTransfer /\ abandoned' = TRUE
  /\ UNCHANGED <<configured, last, chip, regs, selected>>

HighSidePower(on) ==
  /\ power' = on
  /\ UNCHANGED <<configured, last, chip, regs, selected, transfer, abandoned>>

SettingNeeded(sol, ma) == last[sol] # ma

-----------------------------------------------------------------------------
(* init, and the reading of currents by update_task *)

\* The power is on before the chip has been found.  Any message may fail, with or
\* without an effect; the configuration is stored after the last.
SolInit(ok) ==
  /\ power' = TRUE /\ configured' = ok /\ selected' \in (IF ok THEN {FALSE} ELSE BOOLEAN)
  /\ \E n \in DOMAIN After : regs' = After[n] /\ (ok => n = Len(InitPlan))
  /\ abandoned' = selected'
  /\ UNCHANGED <<last, chip, transfer>>

ChannelOn == \E sol \in DOMAIN last : last[sol] # 0

\* The channels take turns.  One that is on is asked, which ends well or not;
\* nothing but chip select is left of it.
ReadCurrent ==
  /\ \/ UNCHANGED <<selected, abandoned>>
     \/ ChannelOn /\ selected' = FALSE /\ UNCHANGED abandoned
     \/ ChannelOn /\ selected' = TRUE /\ abandoned' = TRUE
  /\ UNCHANGED <<power, configured, last, chip, regs, transfer>>

SolenoidsInit ==
  /\ power = FALSE /\ configured = FALSE /\ selected = FALSE
  /\ last = [mpc |-> 0, spc |-> 0] /\ chip = [mpc |-> 0, spc |-> 0]
  /\ regs = ResetRegisters /\ transfer = NoTransfer /\ abandoned = FALSE
=============================================================================
