----------------------------- MODULE Registers -----------------------------
(***************************************************************************)
(* Registers by name over the SPI bus (loragw_reg.c on                     *)
(* loragw_spi.native.c): the page register, which the library remembers in *)
(* lgw_regpage to write it only when it must, read-modify-write of the     *)
(* fields that share a byte, and the handle of the bus.                    *)
(*                                                                         *)
(* No mutex covers them.  The gateway uses them from three threads:        *)
(*   "ctl"      starts and stops the concentrator (lgw_start, lgw_stop);   *)
(*   "receive"  receiveHal: lgw_receive;                                   *)
(*   "send"     processStiot: lgw_status, lgw_send.                        *)
(* lgw_stop does not wait for the two others: ConcentratorController::join *)
(* finds their flags cleared (Concentrator.tla).                           *)
(*                                                                         *)
(* One step is one transaction on the bus, with the assignments of the     *)
(* code before it.  A transaction may fail, done or not.                   *)
(***************************************************************************)
EXTENDS Integers, FiniteSetsExt

CONSTANTS Val,      \* per register: the values written to it
          MaxFail   \* bound: transactions that fail on an open bus

Reg(page, addr, offs, sign, leng, rdon, dflt) ==
  [page |-> page, addr |-> addr, offs |-> offs, sign |-> sign, leng |-> leng,
   rdon |-> rdon, dflt |-> dflt]

(* The registers the model uses, of those at loragw_reg.c:69-396: on more  *)
(* than one page, some that share a byte, of one byte, of less and of      *)
(* more, signed and not, one read-only.                                    *)
loregs ==
  [RX_DATA_BUF_DATA |-> Reg(-1,   4, 0, FALSE,  8, FALSE, 0),
   TX_DATA_BUF_DATA |-> Reg(-1,   6, 0, FALSE,  8, FALSE, 0),
   IF_FREQ_0        |-> Reg( 0,  36, 0, TRUE,  13, FALSE, -384),
   TX_OFFSET_I      |-> Reg( 1,  39, 0, TRUE,   8, FALSE, 0),
   TX_GAIN          |-> Reg( 1,  42, 0, FALSE,  2, FALSE, 0),
   TX_SWAP_IQ       |-> Reg( 1,  42, 7, FALSE,  1, FALSE, 1),
   TX_STATUS        |-> Reg( 1,  62, 0, FALSE,  8, TRUE,  128),
   TIMESTAMP        |-> Reg( 2,  70, 0, FALSE, 32, TRUE,  0)]

Name  == DOMAIN loregs
(* Windows on a buffer of the chip, accessed in bursts.                    *)
Port  == {"RX_DATA_BUF_DATA", "TX_DATA_BUF_DATA"}
(* What keeps the value written to it.                                     *)
Saved == {n \in Name \ Port : ~loregs[n].rdon}
PAGE_REG == "PAGE_REG"

ASSUME ValAssumption  == Val \in [Saved -> SUBSET Int]
ASSUME FailAssumption == MaxFail \in Nat

Thread == {"ctl", "receive", "send"}

(* Mutant: the receiver also reads the time (lgw_get_trigcnt).             *)
UsesWithTime(t) ==
  CASE t = "ctl"     -> {PAGE_REG, "IF_FREQ_0", "TX_SWAP_IQ"}
    [] t = "receive" -> {"RX_DATA_BUF_DATA", "TIMESTAMP"}
    [] t = "send"    -> {"TX_STATUS", "TX_OFFSET_I", "TX_GAIN", "TX_DATA_BUF_DATA"}

(* What each thread accesses, of these registers.  The receiver has no     *)
(* register on a page.                                                     *)
Uses(t) ==
  CASE t = "ctl"     -> {PAGE_REG, "IF_FREQ_0", "TX_SWAP_IQ"}
    [] t = "receive" -> {"RX_DATA_BUF_DATA"}
    [] t = "send"    -> {"TX_STATUS", "TX_OFFSET_I", "TX_GAIN", "TX_DATA_BUF_DATA"}

VARIABLES
  lgw_spi_target,  \* "null", "open", or "dangling": closed and freed
  lgw_regpage,     \* the page the library believes selected, -1: none yet
  page,            \* the page of the chip
  mem,             \* its bytes, by page (-1: on all pages) and address
  call,            \* per thread: the access under way
  mode,            \* how far "ctl" is with starting or stopping
  spawned,         \* the two other threads have been created
  alive,           \* and have not ended
  fault,           \* a freed handle has been used
  fails,           \* what the bound counts
  file,            \* history: the value last given to each register,
                   \* kept up unless disturbed,
  stray,           \* a register was accessed on a page not its own when
                   \* nothing had been disturbed,
  disturbed        \* something has happened after which nothing is promised

chipVars == <<page, mem, file>>
ctlVars  == <<mode, spawned, alive, fault>>
vars     == <<lgw_spi_target, lgw_regpage, chipVars, call, ctlVars, fails, stray, disturbed>>

-----------------------------------------------------------------------------
(* Values and bytes.                                                       *)

Size(r)    == (r.leng + 7) \div 8
OneByte(r) == r.offs + r.leng <= 8
Direct(r)  == r.offs = 0 /\ (r.leng = 8 \/ ~OneByte(r))
Places(n)  == {<<loregs[n].page, loregs[n].addr + i>> : i \in 0..Size(loregs[n]) - 1}
Loc        == UNION {Places(n) : n \in Saved}

(* Mutant: the value is not cut to the byte.                               *)
ByteUncut(v, i) == v \div 256^i

(* Byte i of a value, the least significant first; C's shift of a negative *)
(* number is arithmetic, as \div is.                                       *)
Byte(v, i) == (v \div 256^i) % 256

(* Mutant: the other bits of the byte are lost.                            *)
MixedAlone(r, old, v) == (v % 2^r.leng) * 2^r.offs

(* A byte with the field of r replaced, the others kept.                   *)
Mixed(r, old, v) ==
  LET above == 2^(r.offs + r.leng) IN
    (old \div above) * above + (v % 2^r.leng) * 2^r.offs + (old % 2^r.offs)

(* Sign extension from the register's length, for a signed register.  An   *)
(* unsigned one of several bytes is returned with all their bits.          *)
Extended(r, u) ==
  IF ~r.sign THEN u
  ELSE LET f == u % 2^r.leng IN IF f >= 2^(r.leng - 1) THEN f - 2^r.leng ELSE f

(* What lgw_reg_r makes of the bytes at r.                                 *)
Decoded(n) ==
  LET r     == loregs[n]
      at(i) == mem[<<r.page, r.addr + i>>]
      u[i \in 0..Size(r) - 1] ==   \* of byte i and all above it
        at(i) + (IF i = Size(r) - 1 THEN 0 ELSE 256 * u[i + 1])
  IN  Extended(r, IF OneByte(r) THEN (at(0) \div 2^r.offs) % 2^r.leng ELSE u[0])

(* A byte of the chip after a reset.                                       *)
DefaultByte(l) ==
  MapThenSumSet(LAMBDA n :
                  LET r == loregs[n] IN
                    IF OneByte(r) THEN Mixed(r, 0, r.dflt) ELSE Byte(r.dflt, l[2] - r.addr),
                {n \in Saved : l \in Places(n)})
DefaultMem  == [l \in Loc |-> DefaultByte(l)]
DefaultFile == [n \in Saved |-> loregs[n].dflt]

NoCall == [at |-> "idle", reg |-> PAGE_REG, val |-> 0, buf |-> 0]
Mode   == {"off", "open", "page0", "reset", "config", "up", "stopReset", "close", "null",
           "dead"}

Access == [at : {"idle", "page", "data", "merge"}, reg : Name \cup {PAGE_REG},
           val : Int, buf : 0..255]

(* The ranges of all variables; a byte stays a byte although values are    *)
(* signed and longer (loragw_reg.c:597, 611).                              *)
TypeOK ==
  /\ lgw_spi_target \in {"null", "open", "dangling"}
  /\ lgw_regpage \in -1..3 /\ page \in 0..3
  /\ mem \in [Loc -> 0..255] /\ file \in [Saved -> Int]
  /\ call \in [Thread -> Access]
  /\ mode \in Mode /\ spawned \in BOOLEAN /\ alive \subseteq {"receive", "send"}
  /\ fault \in BOOLEAN /\ fails \in 0..MaxFail /\ stray \in BOOLEAN /\ disturbed \in BOOLEAN

Init ==
  /\ lgw_spi_target = "null" /\ lgw_regpage = -1
  /\ page \in 0..3 /\ mem = DefaultMem /\ file = DefaultFile
  /\ call = [t \in Thread |-> NoCall]
  /\ mode = "off" /\ spawned = FALSE /\ alive = {}
  /\ fault = FALSE /\ fails = 0 /\ stray = FALSE /\ disturbed = FALSE

-----------------------------------------------------------------------------
(* The process has met neither undefined behaviour nor std::terminate.     *)
Running == ~fault /\ mode # "dead"

(* lgw_spi_w, _r, _wb and _rb: with no handle nothing is sent and an error *)
(* returned; else the transfer may fail, after it has reached the chip or  *)
(* before.  A freed handle is read first of all.                           *)
Transfer(done, ok) ==
  /\ Running /\ lgw_spi_target # "dangling"
  /\ ok => done
  /\ done => lgw_spi_target = "open"
  /\ IF lgw_spi_target = "open" /\ ~ok THEN fails < MaxFail /\ fails' = fails + 1
     ELSE UNCHANGED fails

(* What the registers do not promise anything after: a write of the page   *)
(* that got lost, which page_switch and lgw_soft_reset do not look at; a   *)
(* read for a read-modify-write that failed, which does not stop the       *)
(* write; a reset or a change of the handle under a thread at work.        *)
Disturbed(b) == disturbed' = (disturbed \/ b)

Connected == lgw_spi_target # "null" /\ lgw_regpage >= 0
Idle(t)   == call[t].at = "idle"
MayCall(t) ==
  /\ Running /\ Idle(t)
  /\ IF t = "ctl" THEN mode = "config" ELSE t \in alive
InUse == \E t \in Thread : call[t].at # "idle"

Values(n) == IF n \in Saved THEN Val[n] ELSE {0}

(* Only a register of another page than the one believed selected.         *)
NeedsSwitch(r) == r.page # -1 /\ r.page # lgw_regpage

(* lgw_reg_w, _r, _wb, _rb up to the first transaction, which the checks   *)
(* precede.  What is refused there has no effect: it is left out.          *)
BeginAccess(t, n, v) ==
  /\ MayCall(t) /\ Connected
  /\ LET r == loregs[n] IN
       /\ lgw_regpage' = IF NeedsSwitch(r) THEN r.page ELSE lgw_regpage
       /\ call' = [call EXCEPT ![t] = [at  |-> IF NeedsSwitch(r) THEN "page" ELSE "data",
                                       reg |-> n, val |-> v, buf |-> 0]]
  /\ UNCHANGED <<lgw_spi_target, chipVars, ctlVars, fails, stray, disturbed>>

(* lgw_reg_w(LGW_PAGE_REG, 3), as lgw_start does before the calibration.   *)
BeginPage(t) ==
  /\ MayCall(t) /\ Connected /\ PAGE_REG \in Uses(t)
  /\ lgw_regpage' = 3
  /\ call' = [call EXCEPT ![t] = [NoCall EXCEPT !.at = "page"]]
  /\ UNCHANGED <<lgw_spi_target, chipVars, ctlVars, fails, stray, disturbed>>

(* The write of page_switch.  It reports success whatever happens.         *)
PageWrite(t) ==
  /\ call[t].at = "page"
  /\ \E done, ok \in BOOLEAN :
       /\ Transfer(done, ok)
       /\ page' = IF done THEN lgw_regpage ELSE page
       /\ Disturbed(~done)
  /\ call' = IF call[t].reg = PAGE_REG THEN [call EXCEPT ![t] = NoCall]
             ELSE [call EXCEPT ![t].at = "data"]
  /\ UNCHANGED <<lgw_spi_target, lgw_regpage, mem, file, ctlVars, stray>>

OnOwnPage(r) == r.page \in {-1, page}

(* What stray records.                                                     *)
Strays(r, done) == done /\ ~OnOwnPage(r) /\ ~disturbed

(* A read of a register or of a window, or a write of a window.            *)
Look(t) ==
  /\ call[t].at = "data" /\ call[t].reg \notin Saved
  /\ \E done, ok \in BOOLEAN :
       /\ Transfer(done, ok)
       /\ stray' = (stray \/ Strays(loregs[call[t].reg], done))
  /\ call' = [call EXCEPT ![t] = NoCall]
  /\ UNCHANGED <<lgw_spi_target, lgw_regpage, chipVars, ctlVars, disturbed>>

(* The read of a read-modify-write.  The buffer stays 0 when it fails.     *)
ReadByte(t) ==
  LET r == loregs[call[t].reg]
      l == <<r.page, r.addr>>
  IN  /\ call[t].at = "data" /\ call[t].reg \in Saved /\ ~Direct(r)
      /\ \E done, ok \in BOOLEAN :
           /\ Transfer(done, ok) /\ Disturbed(~ok)
           /\ stray' = (stray \/ Strays(r, done))
           /\ call' = [call EXCEPT ![t].at  = "merge",
                                   ![t].buf = IF ok /\ OnOwnPage(r) THEN mem[l] ELSE 0]
      /\ UNCHANGED <<lgw_spi_target, lgw_regpage, chipVars, ctlVars>>

(* The write: of the mixed byte, or of all bytes of the register.  What a  *)
(* stray write spoils is not followed: from there to the next reset no     *)
(* register is known.                                                      *)
WriteBytes(t) ==
  LET n == call[t].reg
      r == loregs[n]
      v == call[t].val
      B == IF Direct(r) THEN [l \in Places(n) |-> Byte(v, l[2] - r.addr)]
                        ELSE [l \in Places(n) |-> Mixed(r, call[t].buf, v)]
  IN  /\ call[t].reg \in Saved
      /\ call[t].at = IF Direct(r) THEN "data" ELSE "merge"
      /\ \E done, ok \in BOOLEAN :
           /\ Transfer(done, ok)
           /\ IF done /\ OnOwnPage(r)
              THEN /\ mem'  = [l \in Loc |-> IF l \in DOMAIN B THEN B[l] ELSE mem[l]]
                   /\ file' = IF disturbed THEN file ELSE [file EXCEPT ![n] = v]
              ELSE UNCHANGED <<mem, file>>
           /\ stray' = (stray \/ Strays(r, done))
      /\ call' = [call EXCEPT ![t] = NoCall]
      /\ UNCHANGED <<lgw_spi_target, lgw_regpage, page, ctlVars, disturbed>>

(* A transaction through a handle that has been freed: undefined, the end  *)
(* of the process here.                                                    *)
UseAfterFree ==
  /\ InUse /\ lgw_spi_target = "dangling" /\ Running
  /\ fault' = TRUE
  /\ UNCHANGED <<lgw_spi_target, lgw_regpage, chipVars, call, mode, spawned, alive, fails, stray,
                 disturbed>>

(* Mutant: the MCU gets the bus with the page left where it was.           *)
McuUnparked ==
  /\ mode = "config" /\ Idle("ctl") /\ ~fault /\ page' \in 0..3
  /\ UNCHANGED <<lgw_spi_target, lgw_regpage, mem, file, call, ctlVars, fails, stray, disturbed>>

(* The calibration firmware has the registers: it leaves them on any page. *)
(* The library believes in page 3, where no register is.                   *)
Mcu ==
  /\ mode = "config" /\ Idle("ctl") /\ ~fault /\ lgw_regpage = 3 /\ page' \in 0..3
  /\ UNCHANGED <<lgw_spi_target, lgw_regpage, mem, file, call, ctlVars, fails, stray, disturbed>>

-----------------------------------------------------------------------------
(* lgw_start.                                                              *)

(* lgw_connect closes the handle it finds, and keeps the pointer.          *)
Connect ==
  /\ mode = "off" /\ ~fault
  /\ fault' = (lgw_spi_target = "dangling")
  /\ lgw_spi_target' = IF lgw_spi_target = "open" THEN "dangling" ELSE lgw_spi_target
  /\ mode' = "open"
  /\ Disturbed(alive # {})
  /\ UNCHANGED <<lgw_regpage, chipVars, call, spawned, alive, fails, stray>>

(* lgw_spi_open sets the pointer when all its steps succeed; then the      *)
(* version is checked.                                                     *)
ConnectOpen ==
  /\ mode = "open" /\ ~fault
  /\ \/ lgw_spi_target' = "open" /\ mode' \in {"page0", "off"}
     \/ UNCHANGED lgw_spi_target /\ mode' = "off"
  /\ UNCHANGED <<lgw_regpage, chipVars, call, spawned, alive, fault, fails, stray, disturbed>>

(* Page 0, then the check of the chip's identity.                          *)
ConnectPage ==
  /\ mode = "page0"
  /\ \E done, ok \in BOOLEAN :
       /\ Transfer(done, ok)
       /\ page' = IF done THEN 0 ELSE page
       /\ lgw_regpage' = IF ok THEN 0 ELSE lgw_regpage
       /\ mode' \in IF ok THEN {"reset", "off"} ELSE {"off"}
       /\ Disturbed(~ok)
  /\ UNCHANGED <<lgw_spi_target, mem, file, call, spawned, alive, fault, stray>>

(* lgw_soft_reset: the chip is on page 0 with default values.  With no     *)
(* other thread about, and the chip known to be on page 0, what was        *)
(* disturbed is made good.                                                 *)
SoftReset(done) ==
  /\ page' = IF done THEN 0 ELSE page
  /\ mem'  = IF done THEN DefaultMem ELSE mem
  /\ file' = IF done THEN DefaultFile ELSE file
  /\ lgw_regpage' = 0
  /\ disturbed' = ~(done /\ alive = {})
  /\ UNCHANGED <<lgw_spi_target, call, spawned, alive, fault, stray>>

StartReset ==
  /\ mode = "reset" /\ mode' = "config"
  /\ \E done, ok \in BOOLEAN : Transfer(done, ok) /\ SoftReset(done)

(* The configuration has been loaded, or some check of it failed.          *)
StartFails ==
  /\ mode = "config" /\ Idle("ctl") /\ ~fault /\ mode' = "off"
  /\ UNCHANGED <<lgw_spi_target, lgw_regpage, chipVars, call, spawned, alive, fault, fails, stray,
                 disturbed>>

(* startConcentrator creates the threads; over threads never joined that   *)
(* is std::terminate.                                                      *)
StartSucceeds ==
  /\ mode = "config" /\ Idle("ctl") /\ ~fault
  /\ IF spawned THEN mode' = "dead" /\ UNCHANGED <<spawned, alive>>
     ELSE mode' = "up" /\ spawned' = TRUE /\ alive' = {"receive", "send"}
  /\ UNCHANGED <<lgw_spi_target, lgw_regpage, chipVars, call, fault, fails, stray, disturbed>>

-----------------------------------------------------------------------------
(* ConcentratorController::stop and join, which joins nobody: lgw_stop     *)
(* while the threads finish what they are at.                              *)
Stop ==
  /\ mode \in {"up", "off"} /\ ~fault
  /\ mode' = IF Connected THEN "stopReset" ELSE "close"
  /\ UNCHANGED <<lgw_spi_target, lgw_regpage, chipVars, call, spawned, alive, fault, fails, stray,
                 disturbed>>

StopReset ==
  /\ mode = "stopReset" /\ mode' = "close"
  /\ \E done, ok \in BOOLEAN : Transfer(done, ok) /\ SoftReset(done)

(* lgw_disconnect: the handle is closed, and only then forgotten.          *)
Close ==
  /\ mode = "close" /\ ~fault
  /\ fault' = (lgw_spi_target = "dangling")
  /\ lgw_spi_target' = IF lgw_spi_target = "open" THEN "dangling" ELSE lgw_spi_target
  /\ mode' = IF lgw_spi_target = "null" THEN "off" ELSE "null"
  /\ Disturbed(alive # {})
  /\ UNCHANGED <<lgw_regpage, chipVars, call, spawned, alive, fails, stray>>

Forget ==
  /\ mode = "null" /\ ~fault
  /\ lgw_spi_target' = "null" /\ mode' = "off"
  /\ UNCHANGED <<lgw_regpage, chipVars, call, spawned, alive, fault, fails, stray, disturbed>>

(* The transactions of "ctl" itself, through a handle freed before.        *)
CtlUseAfterFree ==
  /\ mode = "stopReset" /\ lgw_spi_target = "dangling" /\ ~fault
  /\ fault' = TRUE
  /\ UNCHANGED <<lgw_spi_target, lgw_regpage, chipVars, call, mode, spawned, alive, fails, stray,
                 disturbed>>

(* A thread ends when it finds its flag cleared.                           *)
Quit(t) ==
  /\ t \in alive /\ Idle(t) /\ mode \notin {"up", "dead"} /\ ~fault
  /\ alive' = alive \ {t}
  /\ UNCHANGED <<lgw_spi_target, lgw_regpage, chipVars, call, mode, spawned, fault, fails, stray,
                 disturbed>>

LibraryCall(t) ==
  \/ \E n \in Uses(t) \ {PAGE_REG} : \E v \in Values(n) : BeginAccess(t, n, v)
  \/ BeginPage(t) \/ PageWrite(t) \/ Look(t) \/ ReadByte(t) \/ WriteBytes(t)

Control ==
  \/ Connect \/ ConnectOpen \/ ConnectPage \/ StartReset \/ StartFails \/ StartSucceeds
  \/ Stop \/ StopReset \/ Close \/ Forget \/ CtlUseAfterFree

Next ==
  \/ \E t \in Thread : LibraryCall(t) \/ Quit(t)
  \/ Control \/ UseAfterFree \/ Mcu

Spec == Init /\ [][Next]_vars

-----------------------------------------------------------------------------
(* The page the library remembers is the page of the chip, whenever no     *)
(* switch is under way: page_switch would otherwise be skipped when needed *)
(* (loragw_reg.c:591).  Page 3 holds no register, so the library may be    *)
(* wrong about it: that is what parks it there for the calibration.        *)
PageInSync ==
  /\ ~disturbed /\ mode \in {"config", "up"}
  /\ \A t \in Thread : call[t].at # "page"
  /\ lgw_regpage # 3
  => page = lgw_regpage

(* Two threads access registers with no mutex, and one of them switches    *)
(* pages between its test and its access; still each access reaches the    *)
(* page it means, unless a transaction was lost, or lgw_stop ran under     *)
(* them (readme.md of libloragw, 2.2: "This module handles pagination").   *)
AccessOnItsPage == ~stray

(* Each register reads as the value last written to it, sign included,     *)
(* whatever the other threads have written meanwhile to its neighbours in  *)
(* the byte, with the same two exceptions.                                 *)
RegistersKeepValues == ~disturbed => \A n \in Saved : Decoded(n) = file[n]
=============================================================================
