----------------------------- MODULE PartLayout -----------------------------
(***************************************************************************)
(* How an upload of a given size is cut into numbered parts: the           *)
(* arithmetic of create_upload_session and expected_part_size              *)
(* (backend/apps/uploads/services.py).  Sizes are in bytes and are never   *)
(* zero (UploadCreateSerializer: min_value=1).                             *)
(***************************************************************************)
EXTENDS Integers

CONSTANT PartSize       \* settings.UPLOAD_PART_SIZE_BYTES

ASSUME PartSizeAssumption == PartSize \in Nat \ {0}

Least(a, b) == IF a <= b THEN a ELSE b

\* part_size_bytes of a session for an upload of size bytes.
PartSizeOf(size) == Least(PartSize, size)

\* Mutation of PartCount: rounded down.
FullParts(size) == size \div PartSizeOf(size)

\* math.ceil(size / part_size).
PartCount(size) == (size + PartSizeOf(size) - 1) \div PartSizeOf(size)

PartNumbers(size) == 0 .. (PartCount(size) - 1)

\* The offset and the size expected_part_size returns for an accepted number.
PartOffset(n, size) == n * PartSizeOf(size)
ExpectedPartSize(n, size) ==
    Least(PartSizeOf(size), size - PartOffset(n, size))
=============================================================================
