--------------------------------- MODULE Layout ---------------------------------
(***************************************************************************)
(* The columns of the screen.  drawui() divides the width of the terminal  *)
(* among them, and print_bps() writes a number of bytes into a column of   *)
(* eight characters.  Of the text it writes only the width matters: that   *)
(* of the number, rounded as printf() rounds it, and of what stands around *)
(* it.  A column is a record of its first character and its length.        *)
(***************************************************************************)
EXTENDS Integers

MinWidth == 69     \* "tcptrack requires a screen at least 69 columns wide"

\* What is left of a wide terminal goes to the two addresses.
ExtraCl(x) == IF x > 78 THEN (x - 78) \div 2 ELSE 0
ExtraSr(x) == IF x > 78 THEN x - 78 - ExtraCl(x) ELSE 0

Column(from, len) == [from |-> from, len |-> len]
After(col) == col.from + col.len + 1

Client(x)   == Column(1, 15 + ExtraCl(x))
ClientPt(x) == Column(After(Client(x)), 5)
Server(x)   == Column(After(ClientPt(x)), 15 + ExtraSr(x))
ServerPt(x) == Column(After(Server(x)), 5)
State(x)    == Column(After(ServerPt(x)), 7)
Idle(x)     == Column(After(State(x)), 4)
Act(x)      == Column(After(Idle(x)), 1)
Speed(x)    == Column(After(Act(x)), 8)
Bytes(x)    == Column(After(Speed(x)), 8)

Ends(col) == col.from + col.len
BytesShown(x) == x >= Ends(Bytes(x))

-----------------------------------------------------------------------------
\* n / unit in units of 1 / scale, rounded to the nearest.
Rounded(n, unit, scale) == (2 * n * scale + unit) \div (2 * unit)

\* The width of %4.2f or %4.1f, and of %4.0f, for a number of hundredths,
\* tenths, or units.
WithPoint(r) == IF r < 1000 THEN 4 ELSE IF r < 10000 THEN 5 ELSE 6
NoPoint(r) == IF r < 10000 THEN 4 ELSE 5

KB == 1024
MB == 1024 * KB
GB == 1024 * MB

\* The number as print_bps() writes it, without what stands around it.
Number(n) ==
  IF n < 1000           THEN 4
  ELSE IF n < 10 * KB   THEN WithPoint(Rounded(n, KB, 100))
  ELSE IF n < 100 * KB  THEN WithPoint(Rounded(n, KB, 10))
  ELSE IF n < 1000 * KB THEN NoPoint(Rounded(n, KB, 1))
  ELSE IF n < 10 * MB   THEN WithPoint(Rounded(n, MB, 100))
  ELSE IF n < 100 * MB  THEN WithPoint(Rounded(n, MB, 10))
  ELSE IF n < 1000 * MB THEN NoPoint(Rounded(n, MB, 1))
  ELSE                       WithPoint(Rounded(n, GB, 100))

\* print_bps(): how many characters it writes; one of four is a blank before
\* the number, or a second one behind it, then come a blank and the unit.
PrintBps(n) == Number(n) + 4

=============================================================================
