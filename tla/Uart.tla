-------------------------------- MODULE Uart --------------------------------
(***************************************************************************)
(* The UART driver with its ring buffers (app/user/uart.c, UART_BUFF_EN) and *)
(* its loop test: the receive interrupt switches itself off and posts an     *)
(* event, the task moves the FIFO into a ring, a timer moves the ring into   *)
(* the transmit ring, whose bytes the FIFO-empty interrupt sends.  Tasks and *)
(* timers do not preempt each other; the transmit ring is filled with its    *)
(* interrupt off, so every function is one step.  Bytes are numbered in the  *)
(* order they arrive on the line; 0 is memory never written.                 *)
(***************************************************************************)
EXTENDS Integers, Sequences, SequencesExt

CONSTANTS
    FIFO_LEN,   \* UART_FIFO_LEN (128)
    SIZE,       \* UART_RX_BUFFER_SIZE, UART_TX_BUFFER_SIZE (256)
    CHUNK,      \* bytes uart_test_rx asks for (128)
    QUEUE,      \* uart_recvTaskQueueLen (10)
    BYTES       \* bound: bytes that arrive

UartAssumption ==
    /\ FIFO_LEN \in Nat \ {0} /\ SIZE \in Nat /\ FIFO_LEN < SIZE
    /\ CHUNK \in Nat \ {0} /\ QUEUE \in Nat \ {0} /\ BYTES \in Nat

VARIABLES
    rxFifo, txFifo,     \* external: the FIFOs of the UART
    rxIntr, txIntr,     \* UART_INT_ENA: RXFIFO_FULL and TOUT; TXFIFO_EMPTY
    events,             \* events posted to uart_recvTask
    pRxBuffer, pTxBuffer,
    arrived,            \* history: bytes that arrived
    gone,               \* history: bytes that left on the line
    dropped             \* history: bytes that an overflow lost

vars == <<rxFifo, txFifo, rxIntr, txIntr, events, pRxBuffer, pTxBuffer, arrived, gone, dropped>>

Buffer == [mem : [0..(SIZE - 1) -> 0..BYTES], in : 0..(SIZE - 1), out : 0..(SIZE - 1),
           Space : 0..SIZE]

\* Every variable has its type, and the free space of a ring is what lies
\* between its two positions.
TypeOK ==
    /\ Len(rxFifo) <= FIFO_LEN /\ Len(txFifo) <= FIFO_LEN
    /\ rxIntr \in BOOLEAN /\ txIntr \in BOOLEAN
    /\ events \in 0..QUEUE
    /\ \A b \in {pRxBuffer, pTxBuffer} :
          /\ b \in Buffer
          /\ (b.in - b.out) % SIZE = (SIZE - b.Space) % SIZE
    /\ arrived \in 0..BYTES /\ dropped \subseteq 0..BYTES

\* Uart_Buf_Init, uart_config.
Uart_Buf_Init == [mem |-> [i \in 0..(SIZE - 1) |-> 0], in |-> 0, out |-> 0, Space |-> SIZE]
Init ==
    /\ rxFifo = <<>> /\ txFifo = <<>>
    /\ rxIntr = TRUE /\ txIntr = FALSE
    /\ events = 0
    /\ pRxBuffer = Uart_Buf_Init /\ pTxBuffer = Uart_Buf_Init
    /\ arrived = 0 /\ gone = <<>> /\ dropped = {}

-----------------------------------------------------------------------------
Stored(b) == SIZE - b.Space
\* What lies in a ring, oldest first.
Content(b) == [k \in 1..Stored(b) |-> b.mem[(b.out + k - 1) % SIZE]]

\* Uart_Buf_Cpy, and the loop of Uart_rx_buff_enq: both wrap.
Uart_Buf_Cpy(b, s) ==
    [mem   |-> [i \in DOMAIN b.mem |->
                  LET k == ((i - b.in) % SIZE) + 1 IN IF k <= Len(s) THEN s[k] ELSE b.mem[i]],
     in    |-> (b.in + Len(s)) % SIZE, out |-> b.out, Space |-> b.Space - Len(s)]

\* rx_buff_deq copies in one piece unless pOutPos is beyond pInPos; a ring
\* that is full has them equal, and would be copied past its end.
\* Mutant: a content that wraps is copied in one piece too.
Beyond == 0
Deq_Linear(b, n) ==
    [data |-> [k \in 1..n |-> IF b.out + k <= SIZE THEN b.mem[b.out + k - 1] ELSE Beyond],
     buf  |-> [b EXCEPT !.out = (@ + n) % SIZE, !.Space = @ + n]]
Deq(b, n) ==
    IF b.out <= b.in
    THEN [data |-> [k \in 1..n |-> IF b.out + k <= SIZE THEN b.mem[b.out + k - 1] ELSE Beyond],
          buf  |-> [b EXCEPT !.out = @ + n, !.Space = @ + n]]
    ELSE [data |-> SubSeq(Content(b), 1, n),
          buf  |-> [b EXCEPT !.out = (@ + n) % SIZE, !.Space = @ + n]]

-----------------------------------------------------------------------------
\* A byte arrives on the line; a full FIFO loses it (UART_RXFIFO_OVF).
Arrive ==
    /\ arrived < BYTES /\ arrived' = arrived + 1
    /\ IF Len(rxFifo) < FIFO_LEN
       THEN rxFifo' = Append(rxFifo, arrived + 1) /\ UNCHANGED dropped
       ELSE dropped' = dropped \cup {arrived + 1} /\ UNCHANGED rxFifo
    /\ UNCHANGED <<txFifo, rxIntr, txIntr, events, pRxBuffer, pTxBuffer, gone>>

\* uart0_rx_intr_handler, FULL and TOUT: off, and post; a full queue takes no
\* event.
RxInterrupt ==
    /\ rxIntr /\ rxFifo # <<>>
    /\ rxIntr' = FALSE
    /\ events' = IF events < QUEUE THEN events + 1 ELSE events
    /\ UNCHANGED <<rxFifo, txFifo, txIntr, pRxBuffer, pTxBuffer, arrived, gone, dropped>>

Fits == Len(rxFifo) < pRxBuffer.Space
Uart_rx_buff_enq ==
    /\ events > 0 /\ events' = events - 1
    /\ IF Fits
       THEN /\ pRxBuffer' = Uart_Buf_Cpy(pRxBuffer, rxFifo)
            /\ rxFifo' = <<>>
            /\ rxIntr' = (rxIntr \/ pRxBuffer'.Space >= FIFO_LEN)
       ELSE UNCHANGED <<pRxBuffer, rxFifo, rxIntr>>
    /\ UNCHANGED <<txFifo, txIntr, pTxBuffer, arrived, gone, dropped>>

\* uart_test_rx: rx_buff_deq, then tx_buff_enq, which drops a piece that does
\* not fit and switches the transmit interrupt on in any case.
Received == Deq(pRxBuffer, IF CHUNK > Stored(pRxBuffer) THEN Stored(pRxBuffer) ELSE CHUNK)
Reenable_Not == rxIntr
Reenable == rxIntr \/ pRxBuffer'.Space >= FIFO_LEN
tx_buff_enq(s) ==
    /\ IF Len(s) <= pTxBuffer.Space
       THEN pTxBuffer' = Uart_Buf_Cpy(pTxBuffer, s) /\ UNCHANGED dropped
       ELSE dropped' = dropped \cup ToSet(s) /\ UNCHANGED pTxBuffer
    /\ txIntr' = TRUE
uart_test_rx ==
    /\ pRxBuffer' = Received.buf
    /\ rxIntr' = Reenable
    /\ tx_buff_enq(Received.data)
    /\ UNCHANGED <<rxFifo, txFifo, events, arrived, gone>>

StillEnabled(n) == Stored(pTxBuffer) > n
tx_start_uart_buffer ==
    /\ txIntr
    /\ LET remain == FIFO_LEN - Len(txFifo)
           n == IF Stored(pTxBuffer) > remain THEN remain ELSE Stored(pTxBuffer)
       IN /\ txFifo' = txFifo \o SubSeq(Content(pTxBuffer), 1, n)
          /\ pTxBuffer' = [pTxBuffer EXCEPT !.out = (@ + n) % SIZE, !.Space = @ + n]
          /\ txIntr' = StillEnabled(n)
    /\ UNCHANGED <<rxFifo, rxIntr, events, pRxBuffer, arrived, gone, dropped>>

\* A byte leaves on the line.
Leave ==
    /\ txFifo # <<>>
    /\ txFifo' = Tail(txFifo) /\ gone' = Append(gone, Head(txFifo))
    /\ UNCHANGED <<rxFifo, rxIntr, txIntr, events, pRxBuffer, pTxBuffer, arrived, dropped>>

Next == Arrive \/ RxInterrupt \/ Uart_rx_buff_enq \/ uart_test_rx \/ tx_start_uart_buffer \/ Leave

Spec == Init /\ [][Next]_vars
-----------------------------------------------------------------------------
\* Through two FIFOs, two rings that wrap and interrupts at any point the
\* bytes keep their order, none is doubled or invented, and one that is not
\* under way was dropped by an overflow.
UnderWay == gone \o txFifo \o Content(pTxBuffer) \o Content(pRxBuffer) \o rxFifo
EchoedInOrder ==
    /\ \A i \in 1..(Len(UnderWay) - 1) : UnderWay[i] < UnderWay[i + 1]
    /\ ToSet(UnderWay) = (1..arrived) \ dropped

\* The receiver never goes deaf: while its interrupt is off, an event is going
\* to empty the FIFO or there are bytes to fetch, and whoever fetches them
\* switches it on again, although a post may fail.
NeverDeaf == ~rxIntr => events > 0 \/ Stored(pRxBuffer) > 0

\* Bytes in the transmit ring have the interrupt on that sends them.
NeverStuck == Stored(pTxBuffer) > 0 => txIntr

\* What the loop test promises.
EchoIntact == EchoedInOrder /\ NeverDeaf /\ NeverStuck

=============================================================================
