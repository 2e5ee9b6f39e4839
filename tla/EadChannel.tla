----------------------------- MODULE EadChannel -----------------------------
(***************************************************************************)
(* One direction of the encrypted command channel of ead                   *)
(* (package/ead/src/ead-crypt.c): the sender numbers every message with a  *)
(* growing initialization vector, the receiver accepts a message only if   *)
(* its vector lies in a window above the last one it accepted.             *)
(*                                                                         *)
(* The two peers use the same session key and the same initial vector; the *)
(* directions keep separate counters and the module models either of them. *)
(* UDP broadcast may lose, delay, reorder and duplicate frames, and the    *)
(* server reads frames with pcap, before any checksum is verified: at any  *)
(* time a copy of anything ever sent, intact or damaged, may be received.  *)
(***************************************************************************)
EXTENDS Integers, Sequences

CONSTANTS
  IvInit,     \* the vector both peers derive from the key, top byte cleared
  Wrap,       \* 2^32: vectors are uint32_t
  MaxIncr,    \* EAD_MAX_IV_INCR
  MaxOfs,     \* the largest increment, 4: one plus two bits of ivofs_vec
  Period,     \* ead_get_tx_iv cycles through 16 increments
  Garbled,    \* what a frame damaged inside its iv block may decrypt to
  MaxSend     \* bound: messages encrypted under one key

ASSUME ChannelConstants ==
  /\ IvInit \in Nat /\ Wrap \in Nat /\ IvInit < Wrap
  /\ MaxIncr \in Nat \ {0} /\ MaxOfs \in Nat \ {0} /\ Period \in Nat \ {0}
  /\ MaxSend \in Nat
  /\ Garbled \subseteq 0 .. Wrap - 1

VARIABLES
  ead_tx_iv,  \* sender: vector of the last message sent
  ead_rx_iv,  \* receiver: vector of the last message accepted
  ivofs_vec,  \* sender: the increments taken from the key, as a function
  ivofs_idx,  \* sender: position in it; ead_set_key does not reset it
  sent,       \* the vector of each message encrypted so far, in order
  delivered   \* the messages (positions in sent) decrypted, in order

vars == <<ead_tx_iv, ead_rx_iv, ivofs_vec, ivofs_idx, sent, delivered>>

-----------------------------------------------------------------------------
(* The state right after both peers have called ead_set_key.               *)
Init ==
  /\ ead_tx_iv = IvInit
  /\ ead_rx_iv = IvInit
  /\ ivofs_vec \in [0 .. Period - 1 -> 1 .. MaxOfs]
  /\ ivofs_idx \in 0 .. Period - 1
  /\ sent = <<>>
  /\ delivered = <<>>

NextIv == (ead_tx_iv + ivofs_vec[ivofs_idx]) % Wrap

(* Mutant: the position in ivofs_vec is never wrapped.                     *)
EncryptNoCycle ==
  /\ Len(sent) < MaxSend
  /\ ead_tx_iv' = NextIv
  /\ ivofs_idx' = ivofs_idx + 1
  /\ sent' = Append(sent, NextIv)
  /\ UNCHANGED <<ead_rx_iv, ivofs_vec, delivered>>

(* ead_encrypt_message with ead_get_tx_iv.                                 *)
Encrypt ==
  /\ Len(sent) < MaxSend
  /\ ead_tx_iv' = NextIv
  /\ ivofs_idx' = (ivofs_idx + 1) % Period
  /\ sent' = Append(sent, NextIv)
  /\ UNCHANGED <<ead_rx_iv, ivofs_vec, delivered>>

(* Mutants: the window excludes its last vector, or its lower bound.       *)
CheckRxIvShort(iv) == iv > ead_rx_iv /\ iv < (ead_rx_iv + MaxIncr) % Wrap
CheckRxIvReplay(iv) == iv <= (ead_rx_iv + MaxIncr) % Wrap

(* ead_check_rx_iv: the bound of the window is computed in 32 bits too.    *)
CheckRxIv(iv) ==
  /\ iv > ead_rx_iv
  /\ iv <= (ead_rx_iv + MaxIncr) % Wrap

(* Mutant: the window is tested but not moved.                             *)
DecryptNoAdvance(iv, heard) ==
  /\ CheckRxIv(iv)
  /\ delivered' = heard
  /\ UNCHANGED <<ead_tx_iv, ead_rx_iv, ivofs_vec, ivofs_idx, sent>>

(* ead_decrypt_message for a frame that passes the length and padding      *)
(* tests: outside the window nothing changes, inside it the vector is      *)
(* spent before the hash is compared, and only then the data is heard.      *)
Decrypt(iv, heard) ==
  /\ CheckRxIv(iv)
  /\ ead_rx_iv' = iv
  /\ delivered' = heard
  /\ UNCHANGED <<ead_tx_iv, ivofs_vec, ivofs_idx, sent>>

Receive(n) == Decrypt(sent[n], Append(delivered, n))

(* A damaged frame never passes the hash. Damage outside the block that    *)
(* holds the vector leaves it readable, damage inside makes it arbitrary.  *)
DamagedIvs == Garbled \union { sent[n] : n \in DOMAIN sent }

ReceiveDamaged(iv) == Decrypt(iv, delivered)

Next ==
  \/ Encrypt
  \/ \E n \in DOMAIN sent : Receive(n)
  \/ \E iv \in DamagedIvs : ReceiveDamaged(iv)

Spec == Init /\ [][Next]_vars

-----------------------------------------------------------------------------
TypeOK ==
  /\ ead_tx_iv \in 0 .. Wrap - 1
  /\ ead_rx_iv \in 0 .. Wrap - 1
  /\ ivofs_vec \in [0 .. Period - 1 -> 1 .. MaxOfs]
  /\ ivofs_idx \in 0 .. Period - 1
  /\ sent \in Seq(0 .. Wrap - 1)
  /\ delivered \in Seq(DOMAIN sent)

(* ead-crypt.c:60 clears the top byte of the initial vector "to avoid      *)
(* overflow": enough room for MaxSend messages and the window above them.  *)
NoOverflow == IvInit + MaxOfs * MaxSend + MaxIncr < Wrap

(* The window promises that no frame is ever accepted twice, however often *)
(* the network repeats it and even when the counters overflow.             *)
AtMostOnce ==
  \A i, j \in DOMAIN delivered : delivered[i] = delivered[j] => i = j

(* Without overflow the messages are accepted in the order they were sent: *)
(* a delayed frame cannot pass once a later one has.                       *)
InOrder ==
  \A i, j \in DOMAIN delivered : i < j => delivered[i] < delivered[j]

(* The vector of the n-th message; the zeroth is the initial vector.       *)
IvOf(n) == IF n = 0 THEN IvInit ELSE sent[n]

(* The receiver resynchronises after a burst of losses: if the last vector *)
(* it spent was that of message m, every later message n is acceptable as  *)
(* long as the increments of the messages between them fit in the window.  *)
BurstTolerance ==
  \A m \in 0 .. Len(sent) : \A n \in m + 1 .. Len(sent) :
    ead_rx_iv = IvOf(m) /\ (n - m) * MaxOfs <= MaxIncr => CheckRxIv(sent[n])

Ordered == INSTANCE EadOrderedChannel
             WITH count <- Len(sent), received <- delivered

(* The vectors give an ordered channel that may lose messages: the frames  *)
(* that are refused, and the damaged ones, are steps it does not notice.   *)
ImplementsOrdered == Ordered!Spec
=============================================================================
