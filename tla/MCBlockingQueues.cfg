SPECIFICATION SpecEither
CONSTANTS
    Producers = {p1, p2, p3}
    Consumers = {c1, c2}
    max_size_ = 2
    PutLimit = 2
INVARIANTS NoItemForgotten NoPlaceForgotten
PROPERTIES ImplementsFifo
\* Every producer has put what it had and every consumer is blocked.
CHECK_DEADLOCK FALSE
