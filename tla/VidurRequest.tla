---------------------------- MODULE VidurRequest ----------------------------
(* A request of the inference simulator (vidur/entities/request.py): how      *)
(* many tokens it has to prefill and to decode and how many are processed.    *)
(* Times and metrics are left out.                                            *)
EXTENDS Integers

NewRequest(p, d) ==
  [prefill    |-> p,       \* num_prefill_tokens
   decode     |-> d,       \* num_decode_tokens
   processed  |-> 0,       \* num_processed_tokens
   prefilled  |-> FALSE,   \* is_prefill_complete
   firstToken |-> FALSE,   \* prefill_completed_at is set
   scheduled  |-> FALSE,
   completed  |-> FALSE]

TotalTokens(r) == r.prefill + r.decode

OnBatchSchedule(r) == [r EXCEPT !.scheduled = TRUE]

\* A batch processed n tokens of r; the end of the prefill yields one more.
OnBatchEnd(r, n) ==
  LET seen == r.processed + n
      got  == IF seen = r.prefill THEN seen + 1 ELSE seen
  IN  [r EXCEPT !.processed  = got,
                !.prefilled  = @ \/ seen = r.prefill,
                !.firstToken = @ \/ seen = r.prefill,
                !.completed  = @ \/ got = TotalTokens(r)]

\* The assertions of on_batch_end. decode_time, the time since the first token,
\* is positive when the last token comes from a later batch than the first.
OnBatchEndAsserts(r, n) ==
  /\ r.processed + n <= TotalTokens(r)
  /\ r.processed + n > r.prefill => r.prefilled
  /\ OnBatchEnd(r, n).completed => r.firstToken

\* A request that loses its blocks prefills again what it had processed.
Restart(r) ==
  [NewRequest(r.processed, TotalTokens(r) - r.processed)
     EXCEPT !.firstToken = r.firstToken]
=============================================================================
