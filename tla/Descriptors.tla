---------------------------- MODULE Descriptors ----------------------------
(***************************************************************************)
(* The two descriptor decoders of the probe, src/bin/probe.rs, which walk  *)
(* bytes the device supplies.  A result says which bytes are read; what is *)
(* printed of them is left out.  Positions count from 1.                   *)
(***************************************************************************)
EXTENDS Naturals, Sequences

HID_DTYPE   == 33     \* 0x21
HID_MIN_LEN == 9

\* Bug: a record that runs past the end is not refused.
HidEndsAnywhere(d, i) == i + 1 > Len(d) \/ d[i] = 0

\* The loop ends when no length and type are left, at an empty record, or at
\* one that runs past the end.
HidEnds(d, i) == i + 1 > Len(d) \/ d[i] = 0 \/ i + d[i] - 1 > Len(d)

\* decode_hid_descriptor: the records walked, in order.
HidRecords(d) ==
  LET from[i \in 1..(Len(d) + 256)] ==
        IF HidEnds(d, i) THEN <<>>
        ELSE <<[at |-> i, len |-> d[i]]>> \o from[i + d[i]]
  IN  from[1]

\* Its fields are read from a HID record of at least nine bytes.
HidPrinted(d, r) == d[r.at + 1] = HID_DTYPE /\ r.len >= HID_MIN_LEN

ItemSize(prefix) == IF prefix % 4 = 3 THEN 4 ELSE prefix % 4

\* Bug: the data of the last item taken for granted.
ItemEndUnclipped(d, i) == i + ItemSize(d[i])

\* Last byte of the item at i: its data, as far as the descriptor goes.
ItemEnd(d, i) ==
  IF i + ItemSize(d[i]) > Len(d) THEN Len(d) ELSE i + ItemSize(d[i])

\* decode_report_descriptor: the items, each a prefix byte and its data.
ReportItems(d) ==
  LET from[i \in 1..(Len(d) + 5)] ==
        IF i > Len(d) THEN <<>>
        ELSE <<[first |-> i, last |-> ItemEnd(d, i)]>>
                \o from[i + 1 + ItemSize(d[i])]
  IN  from[1]
=============================================================================
