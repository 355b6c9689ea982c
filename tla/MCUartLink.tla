----------------------------- MODULE MCUartLink -----------------------------
(* UartLink with two-digit numbers and lines of up to nine symbols. *)
EXTENDS UartLink

\* Pieces of lines, and the end of one with the beginning of another; reads cut them anew.
MCChunks == {
  <<"@", "2", "A", SP>>, <<LF>>, <<CR, LF>>, <<Bad, CR>>, <<"VER", CR, SP>>,
  <<"UPAIR", LF>>, <<"UPAIR", SP, "3">>, <<"USWITCH", SP, SP, "1">>,
  <<"UKEYDOWN", SP, "a">>, <<LF, "@", "0", "F">>, <<SP, "UDELETE", LF>> }

\* A number and two commands.
RingChunks == { <<"@", "2", "A", SP>>, <<"VER", LF>>, <<"USTATUS", LF>> }
=============================================================================
