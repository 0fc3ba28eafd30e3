---------------------------- MODULE MCFieldRecords ----------------------------
(* Both sides of every boundary of the casts, limits and validators. *)
EXTENDS RecordJson

MCUnsigned == {0, 1, 2, 3, 4, 127, 128, 129, 255, 256, 257, 1000, 1001,
               65535, 65536, 65537, 2147483647}
MCSigned == {-2147483647, -65536, -32769, -32768, -1, 0, 1, 32767, 32768, 2147483647}

\* Refused by some validator: the zeros, an enum value just past the longest
\* enumeration, a node id or COB id of 128, a share above 1000 permille.
MCForeign == {0, 8, 128, 1001}

\* Around the limits of the 16-bit types, and fractions that truncate to a legal
\* value or lie between a limit and the next integer.
MCNumbers == {<<-32769, TRUE>>, <<-1, TRUE>>, <<0, FALSE>>, <<1000, TRUE>>, <<32767, TRUE>>,
              <<65535, FALSE>>, <<65536, FALSE>>}
==============================================================================
