---------------------------- MODULE MCVouchers ----------------------------
(* Small instances of Vouchers for TLC. *)
EXTENDS Vouchers, TLC

CONSTANTS m1, m2, v1, v2

\* One device per voucher: the default of schema.prisma.
LimitOne == [v \in Voucher |-> 1]

\* Nobody paid; m1 paid for v1.
NobodyPaid == [v \in Voucher |-> Null]
OnePaid    == [v \in Voucher |-> IF v = v1 THEN m1 ELSE Null]

\* All hostnames differ; the two MACs are one phone with random addresses.
AllDiffer == {}
OnePhone  == {<<m1, m2>>, <<m2, m1>>}

\* Handlers are interchangeable.
RequestSymmetry == Permutations(Request)
=============================================================================
