--------------------------- MODULE CreCompare ---------------------------
(* The second opinion on two results (spark/cre_encoding.py, cre_alignment,  *)
(* cre_comparison, cre_decision): rows are encoded, aligned by the keys of   *)
(* the contract and compared cell by cell; the decision is kept beside the   *)
(* status of physical_verifier.py and does not change it.                    *)
EXTENDS ResultCompare

Typed == {"varchar", "double", "decimal", "date"}

(* The bytes of a value: floats by their value, decimals at their scale,     *)
(* dates by their day; a type without a rule is an error.                    *)
Encode(x, type) == IF x = "null" THEN x
                   ELSE CASE type = "double" -> IF x = "NaN" THEN "nan" ELSE x
                          [] type = "decimal" -> IF x = "1r" THEN "1" ELSE x
                          [] type = "date" -> Text(x)
                          [] OTHER -> x
EncodeRow(r, types) == [c \in Columns |-> Encode(Raw(r, c), types[c])]
Digest(r, keys, types) == [i \in DOMAIN keys |-> Encode(Raw(r, keys[i]), types[keys[i]])]
Digests(rows, keys, types) == {Digest(rows[i], keys, types) : i \in DOMAIN rows}
Unencodable(rows, cols, types) == \E c \in cols, i \in DOMAIN rows : types[c] \notin Typed /\ Raw(rows[i], c) # "null"

(* An engine without rows has none of the contract's columns.                *)
SchemaWrong(D, S) == (D # <<>> \/ S # <<>>) /\ ({Present(D), Present(S)} # {Columns})
NullKey(rows, keys) == \E i \in DOMAIN rows, c \in ToSet(keys) : Raw(rows[i], c) \in {"null", "blank"}
Repeated(rows, keys, types) == Cardinality(Digests(rows, keys, types)) < Len(rows)

Pairs(D, S, keys, types) ==
    {p \in ToSet(D) \X ToSet(S) : Digest(p[1], keys, types) = Digest(p[2], keys, types)}

(* Why a cell of a row that is not the same byte for byte counts as it does. *)
(* A date is only taken from a date object or a number.                      *)
CellReason(x, y, type) ==
    IF "null" \in {x, y} THEN IF x = y THEN "same" ELSE "unknown"
    ELSE CASE type = "double" -> IF {x, y} \cap {"nan", "NaN"} # {} THEN "special"
                                 ELSE IF Equivalent(x, y, type) THEN "within" ELSE "out"
           [] type = "decimal" -> IF Encode(x, type) = Encode(y, type) THEN "within" ELSE "out"
           [] type = "date" -> IF x = y /\ x \in DOMAIN Iso THEN "same" ELSE "date"
           [] OTHER -> IF x = y THEN "same" ELSE "string"
RowReasons(p, types) == IF EncodeRow(p[1], types) = EncodeRow(p[2], types) THEN {}
                        ELSE {CellReason(Raw(p[1], c), Raw(p[2], c), types[c]) : c \in Columns}
Reasons(pairs, types) == UNION {RowReasons(p, types) : p \in pairs}

DecideM(reasons) == IF reasons \cap {"string", "date", "unknown"} # {} THEN "MISMATCH"
                    ELSE IF "special" \in reasons THEN "HUMAN_REVIEW"
                    ELSE IF "within" \in reasons THEN "CONSISTENT_WITH_WARN" ELSE "CONSISTENT"
Decide(reasons) == IF reasons \cap {"string", "date", "out", "unknown"} # {} THEN "MISMATCH"
                   ELSE IF "special" \in reasons THEN "HUMAN_REVIEW"
                   ELSE IF "within" \in reasons THEN "CONSISTENT_WITH_WARN" ELSE "CONSISTENT"

Aligned(D, S, keys, types) ==
    IF SchemaWrong(D, S) THEN "MISMATCH"
    ELSE IF \/ NullKey(D, keys) \/ NullKey(S, keys)
            \/ Unencodable(D \o S, ToSet(keys), types)
            \/ Repeated(D, keys, types) \/ Repeated(S, keys, types) THEN "HUMAN_REVIEW"
    ELSE IF \E p \in Pairs(D, S, keys, types) : Unencodable(p, Columns, types) THEN "ERROR"
    ELSE IF Digests(D, keys, types) # Digests(S, keys, types) THEN "MISMATCH"
    ELSE Decide(Reasons(Pairs(D, S, keys, types), types))

(* Without keys only a single row on either side is compared.                *)
Shadow(D, S, job) ==
    IF ~job.declared THEN "NOT_EXECUTED"
    ELSE IF "timestamp" \in {job.types[c] : c \in Columns} THEN "ERROR"
    ELSE IF job.pks # <<>> THEN Aligned(D, S, job.pks, job.types)
    ELSE IF Len(D) # 1 \/ Len(S) # 1 THEN "NOT_EXECUTED"
    ELSE IF Unencodable(D \o S, Columns, job.types) THEN "ERROR"
    ELSE Decide(Reasons({<<D[1], S[1]>>}, job.types))
==========================================================================
