------------------------------ MODULE FramingMC ------------------------------
(* The messages of the runs of Framing. *)
EXTENDS Framing

Msg(kind, payload) == [kind |-> kind, payload |-> payload]

Lines   == {Msg("line", <<Byte>>)}
Newline == {Msg("recv", <<Byte, LF>>)}

(* One of each kind, payloads of up to three bytes.                         *)
All == Lines \cup Newline
         \cup {Msg("short", << >>), Msg("multi", <<Byte, LF, Byte>>),
               Msg("refusal", << >>), Msg("malformed", << >>),
               Msg("recv", << >>), Msg("recv", <<Byte, Byte>>)}
=============================================================================
