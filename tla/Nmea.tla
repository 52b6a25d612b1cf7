-------------------------------- MODULE Nmea --------------------------------
(***************************************************************************)
(* Sentences of a GPS receiver and the solution kept of them               *)
(* (loragw_gps.c).  A field is one cell: 0 if it is empty, 1 and 2 for two *)
(* contents, 3 for one that begins as 2 and breaks off (or, for a letter,  *)
(* for one that nobody knows).  The line may change a cell, or lose the    *)
(* end of a sentence.                                                      *)
(***************************************************************************)
EXTENDS Integers, Sequences, SequencesExt

CONSTANT Sentences   \* of the receiver: [label, cells, fields, sum]

VARIABLES
  fd,                \* the port is open
  serial_buff,       \* the sentence in the buffer
  gps_time, gps_time_ok, gps_pos, gps_pos_ok, gps_mod, gps_sat,
  got,               \* what lgw_gps_get has returned of the sentences so far
  garbled,           \* history: the sentence in the buffer is not the receiver's
  rmc, gga           \* history: cells of the last sentence of the kind that came through
vars == <<fd, serial_buff, gps_time, gps_time_ok, gps_pos, gps_pos_ok, gps_mod, gps_sat, got,
          garbled, rmc, gga>>
solution == <<gps_time, gps_time_ok, gps_pos, gps_pos_ok, gps_mod, gps_sat>>

Cell == 0..3
None == <<>>
Kept(cell, old) == IF cell = 0 THEN old ELSE cell   \* of a field sscanf has read

NmeaInit ==
  /\ fd = FALSE /\ serial_buff = None
  /\ gps_time = [clock |-> 0, fra |-> 0, day |-> 0, yea |-> 0] /\ gps_time_ok = FALSE
  /\ gps_pos = [lat |-> 0, mla |-> 0, ola |-> 0, alt |-> 0] /\ gps_pos_ok = FALSE
  /\ gps_mod = "N" /\ gps_sat = 0
  /\ got = None /\ garbled = FALSE /\ rmc = None /\ gga = None

-----------------------------------------------------------------------------
(* A port that opens and does not take its settings stays open.            *)
lgw_gps_enable ==
  /\ \/ fd' = TRUE /\ gps_time_ok' = FALSE /\ gps_pos_ok' = FALSE /\ gps_mod' = "N" /\ rmc' = None /\ gga' = None
     \/ fd' \in {fd, TRUE} /\ UNCHANGED <<gps_time_ok, gps_pos_ok, gps_mod, rmc, gga>>
  /\ UNCHANGED <<serial_buff, gps_time, gps_pos, gps_sat, got, garbled>>

Xor(a, b) == ((a + b) % 2) + (2 * (((a \div 2) + (b \div 2)) % 2))
nmea_checksum(s) == FoldLeft(Xor, 0, s.cells)
validate_nmea_checksum(s) == s.sum # -1 /\ s.sum = nmea_checksum(s)   \* -1: cut off

Says(s)  == [s EXCEPT !.sum = nmea_checksum(s)]
Noise(s) == {[s EXCEPT !.cells[i] = c] : i \in DOMAIN s.cells, c \in Cell}
            \cup {[s EXCEPT !.sum = -1], [s EXCEPT !.label = "$G", !.sum = -1]}
Line ==
  /\ fd
  /\ \E s \in Sentences :
       \/ serial_buff' = Says(s) /\ garbled' = FALSE
       \/ serial_buff' \in Noise(Says(s)) \ {Says(s)} /\ garbled' = TRUE
  /\ got' = None
  /\ UNCHANGED <<fd, solution, rmc, gga>>

-----------------------------------------------------------------------------
(* str_chop works in place: a sentence parsed again has one field.         *)
str_chop == serial_buff' = [serial_buff EXCEPT !.fields = 1]

Mode(cell) == IF cell = 1 THEN "A" ELSE IF cell = 2 THEN "D" ELSE "N"

(* Mutant: the flag stays when a sentence has no date.                     *)
RmcKeepsFlag ==
  LET c == serial_buff.cells IN
  /\ gps_mod' = Mode(c[3])
  /\ gps_time' = [clock |-> IF c[1] = 3 THEN 2 ELSE Kept(c[1], gps_time.clock),
                  fra   |-> IF c[1] = 3 THEN gps_time.fra ELSE Kept(c[1], gps_time.fra),
                  day   |-> IF c[2] = 3 THEN 2 ELSE Kept(c[2], gps_time.day),
                  yea   |-> IF c[2] = 3 THEN gps_time.yea ELSE Kept(c[2], gps_time.yea)]
  /\ gps_time_ok' = IF c[1] \in 1..2 /\ c[2] \in 1..2 THEN gps_mod' # "N" ELSE gps_time_ok

(* Fields that are there are taken over whether the others are or not.     *)
Rmc ==
  LET c == serial_buff.cells IN
  /\ gps_mod' = Mode(c[3])
  /\ gps_time' = [clock |-> IF c[1] = 3 THEN 2 ELSE Kept(c[1], gps_time.clock),
                  fra   |-> IF c[1] = 3 THEN gps_time.fra ELSE Kept(c[1], gps_time.fra),
                  day   |-> IF c[2] = 3 THEN 2 ELSE Kept(c[2], gps_time.day),
                  yea   |-> IF c[2] = 3 THEN gps_time.yea ELSE Kept(c[2], gps_time.yea)]
  /\ gps_time_ok' = (c[1] \in 1..2 /\ c[2] \in 1..2 /\ gps_mod' # "N")

(* Longitude is read as latitude is, and left out.                         *)
Gga ==
  LET c == serial_buff.cells IN
  /\ gps_sat' = Kept(c[4], gps_sat)
  /\ gps_pos' = [lat |-> IF c[1] = 3 THEN 2 ELSE Kept(c[1], gps_pos.lat),
                 mla |-> IF c[1] = 3 THEN gps_pos.mla ELSE Kept(c[1], gps_pos.mla),
                 ola |-> c[2],
                 alt |-> Kept(c[3], gps_pos.alt)]
  /\ gps_pos_ok' = (c[1] \in 1..2 /\ c[2] \in 1..2 /\ c[3] # 0)

(* The number of fields is asked for once the buffer is chopped.           *)
lgw_parse_nmea ==
  /\ serial_buff # None
  /\ LET checked == validate_nmea_checksum(serial_buff) IN
     CASE serial_buff.label = "$GPRMC" /\ checked ->
            /\ str_chop
            /\ IF serial_buff.fields = 13
               THEN Rmc /\ rmc' = IF garbled THEN rmc ELSE serial_buff.cells
               ELSE UNCHANGED <<gps_time, gps_time_ok, gps_mod, rmc>>
            /\ UNCHANGED <<gps_pos, gps_pos_ok, gps_sat, gga>>
       [] serial_buff.label = "$GPGGA" /\ checked ->
            /\ str_chop
            /\ IF serial_buff.fields = 15
               THEN Gga /\ gga' = IF garbled THEN gga ELSE serial_buff.cells
               ELSE UNCHANGED <<gps_pos, gps_pos_ok, gps_sat, gga>>
            /\ UNCHANGED <<gps_time, gps_time_ok, gps_mod, rmc>>
       [] OTHER -> UNCHANGED <<serial_buff, solution, rmc, gga>>
  /\ got' = None
  /\ UNCHANGED <<fd, garbled>>

(* Time and place, or one of them; the time is written even if there is no *)
(* place.                                                                  *)
lgw_gps_get(utc, loc) ==
  /\ got' = [utc |-> IF utc /\ gps_time_ok THEN gps_time ELSE None,
             loc |-> IF loc /\ gps_pos_ok /\ (utc => gps_time_ok) THEN gps_pos ELSE None,
             ret |-> (utc => gps_time_ok) /\ (loc => gps_pos_ok)]
  /\ UNCHANGED <<fd, serial_buff, solution, garbled, rmc, gga>>

NmeaNext == lgw_gps_enable \/ Line \/ lgw_parse_nmea
            \/ \E utc, loc \in BOOLEAN : lgw_gps_get(utc, loc)

-----------------------------------------------------------------------------
(* Properties.                                                             *)

(* A time is only given out if the last RMC sentence that came through was *)
(* complete and of a fix, and all its parts are of that sentence, although *)
(* incomplete ones have overwritten some of them in between: nothing the   *)
(* line has garbled gets in.                                               *)
TimeOfLastFix ==
  gps_time_ok => /\ rmc # None /\ rmc[1] \in 1..2 /\ rmc[2] \in 1..2 /\ rmc[3] \in 1..2
                 /\ gps_time = [clock |-> rmc[1], fra |-> rmc[1],
                                day |-> rmc[2], yea |-> rmc[2]]

(* The same of a place and the GGA sentences.                              *)
PlaceOfLastFix ==
  gps_pos_ok => /\ gga # None /\ gga[1] \in 1..2 /\ gga[2] \in 1..2 /\ gga[3] # 0
                /\ gps_pos = [lat |-> gga[1], mla |-> gga[1], ola |-> gga[2], alt |-> gga[3]]
=============================================================================
