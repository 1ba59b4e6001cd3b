----------------------------- MODULE ByteStream -----------------------------
(***************************************************************************)
(* A file of items of known sizes.  A file is a function from the          *)
(* positions at which items start to <<value, size>>.  Writing at a        *)
(* position destroys whatever it overlaps; reading at a position succeeds  *)
(* only if an item of the size asked for starts there.  A value is a       *)
(* tuple that starts with what the item is.                                *)
(***************************************************************************)
LOCAL INSTANCE Integers
LOCAL INSTANCE Sequences

Garbage == <<"garbage">>

\* Where each of the items starts that are written at a position, and where the
\* last one ends.
Places(position, items) ==
    LET place[i \in 1 .. Len(items) + 1] ==
            IF i = 1 THEN position ELSE place[i - 1] + items[i - 1][2]
    IN  place

EndAt(position, items) == Places(position, items)[Len(items) + 1]

\* The file after the items have been written at the position.
WriteAt(file, position, items) ==
    LET place == Places(position, items)
        end == place[Len(items) + 1]
        spared == {p \in DOMAIN file : p + file[p][2] <= position \/ p >= end}
        written == {i \in 1 .. Len(items) : items[i][2] > 0}
    IN  [p \in spared \cup {place[i] : i \in written} |->
            IF \E i \in written : place[i] = p
            THEN items[CHOOSE i \in written : place[i] = p]
            ELSE file[p]]

ReadAt(file, position, size) ==
    IF position \in DOMAIN file /\ file[position][2] = size THEN file[position][1] ELSE Garbage

\* A number of items of one size.
ReadMany(file, position, size, count) ==
    [i \in 1 .. count |-> ReadAt(file, position + (i - 1) * size, size)]
=============================================================================
