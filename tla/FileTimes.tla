------------------------------ MODULE FileTimes -------------------------------
(* conversion.cpp's file times: a FILETIME counts ticks of 100 ns since 1601 *)
(* in two halves, the device seconds since 1970.  The arithmetic is that of  *)
(* uint64_t: modulo Half * Half.                                             *)
EXTENDS Integers

CONSTANTS
  Half,             \* 2^32
  Resolution,       \* 10000000, ticks in a second
  EPOCH_DIFFERENCE, \* seconds from 1601 to 1970
  NoTime            \* a null pointer to a FILETIME

ASSUME TimesAssumption ==
  /\ Half \in Nat \ {0} /\ Resolution \in Nat \ {0} /\ EPOCH_DIFFERENCE \in Nat
  /\ Resolution * EPOCH_DIFFERENCE < Half * Half

FILETIME == [low : 0..(Half - 1), high : 0..(Half - 1)]

Ticks(t) == t.high * Half + t.low
Int64(v) == IF v < (Half * Half) \div 2 THEN v ELSE v - Half * Half

\* Faulty variant of filetime_from_unix_time: the epochs are taken for one.
filetime_from_unix_time_1970(unix_time) ==
  LET ticks == (Resolution * unix_time) % (Half * Half)
  IN  [low |-> ticks % Half, high |-> ticks \div Half]

\* unix_time is the uint64_t a FileStat holds.
filetime_from_unix_time(unix_time) ==
  LET since_windows_epoch == (unix_time + EPOCH_DIFFERENCE) % (Half * Half)
      ticks == (Resolution * since_windows_epoch) % (Half * Half)
  IN  [low |-> ticks % Half, high |-> ticks \div Half]

\* Times before 1970 become 1970.
unix_time_from_filetime(t) ==
  LET signed_file_time == Int64((Ticks(t) \div Resolution - EPOCH_DIFFERENCE) % (Half * Half))
  IN  IF signed_file_time > 0 THEN signed_file_time ELSE 0

\* What set_file_time sends: -1 stands for a time that is not to be changed.
signed_time_from_ptr(t) ==
  IF t = NoTime THEN -1 ELSE IF Ticks(t) = 0 THEN -1 ELSE unix_time_from_filetime(t)

\* The time a file has after utimensat, where it was `old`.
get_timspec_from_timestamp(timestamp, old) == IF timestamp = -1 THEN old ELSE timestamp
=============================================================================
