----------------------------- MODULE MCApiReads -----------------------------
(***************************************************************************)
(* Instances of ApiReads for TLC.                                          *)
(***************************************************************************)
EXTENDS ApiReads

\* Three notifications on two channels.
TwoChannels == [i \in Ids |-> IF i = 3 THEN "email" ELSE "sms"]

\* A batch, or two notifications of which one has been sent; and room for more.
Row(stamp, status) == [stamp |-> stamp, status |-> status, sent_at |-> status = "sent"]
SomeTables ==
  {<<Row(1, "pending"), Row(1, "pending")>>, <<Row(2, "sent"), Row(1, "pending")>>}

\* No filter, a stable one and one that rows drop out of; any page and size.
ThreeFilters ==
  [status : {Any}, channel : {Any, "sms"}, page : {0, 1}, size : {0, 3}]
    \cup [status : {"sent"}, channel : {Any}, page : {1}, size : {1}]

=============================================================================
