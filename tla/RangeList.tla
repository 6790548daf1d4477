------------------------------ MODULE RangeList ------------------------------
(***************************************************************************)
(* The range lists that ACKs and NAKs are made of: sequences of <<lo, hi>> *)
(* pairs, both ends included.  Numbers are whole here; where they wrap the *)
(* code keeps two ranges and sorts the later one first.                    *)
(***************************************************************************)
EXTENDS Integers, SequencesExt

Covered(ranges) == UNION {r[1] .. r[2] : r \in Range(ranges)}

Lower(r, q) == r[1] < q[1] \/ (r[1] = q[1] /\ r[2] < q[2])

\* The ranges of s, the lower ones first.
InOrder(s) ==
    LET place == CHOOSE p \in Bijection(DOMAIN s, DOMAIN s) :
                     \A i, j \in DOMAIN s : i < j => ~Lower(s[p[j]], s[p[i]])
    IN  [i \in DOMAIN s |-> s[place[i]]]

\* One more range at the end of a merged list.
Merge(merged, r) ==
    IF merged # << >> /\ r[1] <= Last(merged)[2] + 1
    THEN Append(Front(merged), <<Last(merged)[1], Max({Last(merged)[2], r[2]})>>)
    ELSE Append(merged, r)

\* _add_to_ranges
AddToRanges(ranges, n) ==
    FoldLeft(Merge, << >>, InOrder(Append(ranges, <<n, n>>)))

\* A single number takes 4 bytes of a packet and a range takes 7.
RangeSize(r) == IF r[1] = r[2] THEN 4 ELSE 7

Size(ranges) == FoldLeft(LAMBDA total, r : total + RangeSize(r), 0, ranges)

\* _build_range_packets: a packet is as long as its room allows, and holds
\* one range at least.
RangePackets(ranges, room) ==
    LET place(packets, r) ==
            IF packets # << >> /\ Size(Last(packets)) + RangeSize(r) <= room
            THEN Append(Front(packets), Append(Last(packets), r))
            ELSE Append(packets, <<r>>)
    IN  FoldLeft(place, << >>, ranges)

\* What a list must be to take the least room: ascending, with a gap between
\* any two ranges.
Canonical(ranges) ==
    /\ \A i \in DOMAIN ranges : ranges[i][1] <= ranges[i][2]
    /\ \A i, j \in DOMAIN ranges : i < j => ranges[i][2] + 1 < ranges[j][1]
=============================================================================
