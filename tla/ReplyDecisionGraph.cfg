\* The graph over all messages of up to two term groups.
SPECIFICATION Spec
CONSTANTS
  Requests <- MCRequests
  Recalls <- MCRecalls
  Reach = {"product", "purchase", "fulfilment", "usage", "returns", "repair",
           "shipping", "recommend", "old_product", "vague_order", "vague_package",
           "delivery_ambiguous", "how_after_sale", "after_sale_word", "address_or_note",
           "invoice", "delivered", "risk", "other_tenant",
           "action", "address_pattern", "topic_shipping", "topic_product",
           "topic_order", "topic_rule"}
INVARIANTS TypeOK AutoReplyIsSafe NeverGuesses OneObligation TraceIsSound ComputesReply
PROPERTY Terminates
CHECK_DEADLOCK FALSE
