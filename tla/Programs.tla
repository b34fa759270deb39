------------------------------- MODULE Programs -------------------------------
(***************************************************************************)
(* The native programs of crates/program-executor: the system program and  *)
(* the token program, as InstructionProcessor.process_instruction runs     *)
(* them on the AccountsDB, one instruction at a time.  An instruction that *)
(* fails a check has stored nothing, so it is a step that does not happen. *)
(***************************************************************************)
EXTENDS Integers, FiniteSets, FiniteSetsExt

CONSTANTS
    Keys,          \* pubkeys
    Genesis,       \* lamports of the wallets that exist at the start
    Amounts,       \* amounts that instructions name
    RENT,          \* MINIMUM_RENT_EXEMPT_BALANCE
    MaxSteps,      \* bound on the number of instructions
    Word           \* u64 values are below Word

ASSUME ProgramsAssumption ==
    /\ Amounts \subseteq 0..(Word - 1)
    /\ RENT \in 0..(Word - 1)
    /\ MaxSteps \in Nat

VARIABLES
    db,            \* the existing accounts: pubkey -> account
    op,            \* the latest instruction: name, signer and accounts
    steps

vars == <<db, op, steps>>

-------------------------------------------------------------------------------
(* Accounts *)

SYSTEM == "system"
TOKEN == "token"
Owners == {SYSTEM, TOKEN, "other"}

System == [kind |-> "System"]
Data == [kind |-> "Data"]
Token(mint, authority, amount) ==
    [kind |-> "Token", mint |-> mint, authority |-> authority, amount |-> amount]
Mint(authority, supply) == [kind |-> "Mint", authority |-> authority, supply |-> supply]

Account(lamports, owner, data) == [lamports |-> lamports, owner |-> owner, data |-> data]

new_mint(authority) == Account(RENT, TOKEN, Mint(authority, 0))

new_token_account(mint, authority) == Account(0, TOKEN, Token(mint, authority, 0))

exists(k) == k \in DOMAIN db

\* store(k, account), then store(l, other): when k = l the second one wins.
Store(b, k, account) ==
    [j \in DOMAIN b \cup {k} |-> IF j = k THEN account ELSE b[j]]

\* load_owned succeeds on accounts of the token program.
load_owned(k) == exists(k) /\ db[k].owner = TOKEN

IsToken(k) == load_owned(k) /\ db[k].data.kind = "Token"
IsMint(k) == load_owned(k) /\ db[k].data.kind = "Mint"

\* Mutant of Fits: additions are not checked.
Fits_Unchecked(n) == n >= 0

\* checked_add finds no overflow.
Fits(n) == n < Word

-------------------------------------------------------------------------------
(* Instructions *)

Did(name, signer, accounts) ==
    /\ steps' = steps + 1
    /\ op' = [name |-> name, signer |-> signer, accounts |-> accounts]

Init ==
    /\ db = [k \in DOMAIN Genesis |-> Account(Genesis[k], SYSTEM, System)]
    /\ op = [name |-> "none"]
    /\ steps = 0

\* process_transfer: both accounts are loaded before either is stored.
process_transfer(signer, to, n) ==
    LET from_account == db[signer]
        to_account == IF exists(to) THEN db[to] ELSE Account(0, SYSTEM, System)
        debited == [from_account EXCEPT !.lamports = @ - n]
        credited == [to_account EXCEPT !.lamports = @ + n]
    IN  /\ exists(signer)
        /\ from_account.lamports >= n
        /\ Fits(to_account.lamports + n)
        /\ db' = Store(Store(db, signer, debited), to, credited)
        /\ Did("Transfer", signer, {signer, to})

\* Mutant of process_create_account: the rent reserve is not credited.
process_create_account_RentLost(signer, new, n, owner) ==
    /\ ~exists(new)
    /\ exists(signer)
    /\ Fits(n + RENT)
    /\ db[signer].lamports >= n + RENT
    /\ db' = Store(Store(db, signer, [db[signer] EXCEPT !.lamports = @ - (n + RENT)]),
                   new, Account(n, owner, Data))
    /\ Did("CreateAccount", signer, {signer, new})

\* process_create_account: the payer funds n and the rent reserve.
process_create_account(signer, new, n, owner) ==
    /\ ~exists(new)
    /\ exists(signer)
    /\ Fits(n + RENT)
    /\ db[signer].lamports >= n + RENT
    /\ db' = Store(Store(db, signer, [db[signer] EXCEPT !.lamports = @ - (n + RENT)]),
                   new, Account(n + RENT, owner, Data))
    /\ Did("CreateAccount", signer, {signer, new})

process_assign(signer, owner) ==
    /\ exists(signer)
    /\ db[signer].owner = SYSTEM
    /\ db' = [db EXCEPT ![signer].owner = owner]
    /\ Did("Assign", signer, {signer})

process_initialize_mint(signer) ==
    /\ ~exists(signer)
    /\ db' = Store(db, signer, new_mint(signer))
    /\ Did("InitializeMint", signer, {signer})

\* Mutant of process_initialize_account: the mint is not checked.
process_initialize_account_AnyMint(signer, mint, new) ==
    /\ exists(mint)
    /\ ~exists(new)
    /\ db' = Store(db, new, new_token_account(mint, signer))
    /\ Did("InitializeAccount", signer, {mint, new})

process_initialize_account(signer, mint, new) ==
    /\ IsMint(mint)
    /\ ~exists(new)
    /\ db' = Store(db, new, new_token_account(mint, signer))
    /\ Did("InitializeAccount", signer, {mint, new})

\* Mutant of process_token_transfer: the authority is not checked.
process_token_transfer_NoAuthority(signer, from, to, n) ==
    /\ from # to
    /\ IsToken(from) /\ IsToken(to)
    /\ db[from].data.mint = db[to].data.mint
    /\ db[from].data.amount >= n
    /\ Fits(db[to].data.amount + n)
    /\ db' = [db EXCEPT ![from].data.amount = @ - n, ![to].data.amount = @ + n]
    /\ Did("TokenTransfer", signer, {from, to})

process_token_transfer(signer, from, to, n) ==
    /\ from # to
    /\ IsToken(from) /\ IsToken(to)
    /\ db[from].data.authority = signer
    /\ db[from].data.mint = db[to].data.mint
    /\ db[from].data.amount >= n
    /\ Fits(db[to].data.amount + n)
    /\ db' = [db EXCEPT ![from].data.amount = @ - n, ![to].data.amount = @ + n]
    /\ Did("TokenTransfer", signer, {from, to})

\* Mutant of process_mint_to: the mint of the destination is not checked.
process_mint_to_CrossMint(signer, mint, dest, n) ==
    /\ IsMint(mint) /\ IsToken(dest)
    /\ db[mint].data.authority = signer
    /\ Fits(db[mint].data.supply + n)
    /\ Fits(db[dest].data.amount + n)
    /\ db' = [db EXCEPT ![mint].data.supply = @ + n, ![dest].data.amount = @ + n]
    /\ Did("MintTo", signer, {mint, dest})

process_mint_to(signer, mint, dest, n) ==
    /\ IsMint(mint) /\ IsToken(dest)
    /\ db[mint].data.authority = signer
    /\ db[dest].data.mint = mint
    /\ Fits(db[mint].data.supply + n)
    /\ Fits(db[dest].data.amount + n)
    /\ db' = [db EXCEPT ![mint].data.supply = @ + n, ![dest].data.amount = @ + n]
    /\ Did("MintTo", signer, {mint, dest})

process_burn(signer, mint, token, n) ==
    /\ IsMint(mint) /\ IsToken(token)
    /\ db[token].data.authority = signer
    /\ db[token].data.mint = mint
    /\ db[token].data.amount >= n
    /\ db[mint].data.supply >= n
    /\ db' = [db EXCEPT ![mint].data.supply = @ - n, ![token].data.amount = @ - n]
    /\ Did("Burn", signer, {mint, token})

Next ==
    /\ steps < MaxSteps
    /\ \E signer \in Keys :
        \/ \E to \in Keys, n \in Amounts : process_transfer(signer, to, n)
        \/ \E new \in Keys, n \in Amounts, owner \in Owners :
              process_create_account(signer, new, n, owner)
        \/ \E owner \in Owners : process_assign(signer, owner)
        \/ process_initialize_mint(signer)
        \/ \E mint, new \in Keys : process_initialize_account(signer, mint, new)
        \/ \E from, to \in Keys, n \in Amounts : process_token_transfer(signer, from, to, n)
        \/ \E mint, dest \in Keys, n \in Amounts : process_mint_to(signer, mint, dest, n)
        \/ \E mint, token \in Keys, n \in Amounts : process_burn(signer, mint, token, n)

Spec == Init /\ [][Next]_vars

-------------------------------------------------------------------------------
(* Properties *)

\* Balances and supplies are u64 values: every addition is checked.
TypeOK ==
    /\ DOMAIN db \subseteq Keys
    /\ \A k \in DOMAIN db :
        /\ db[k].lamports \in 0..(Word - 1)
        /\ db[k].owner \in Owners
        /\ db[k].data.kind = "Token" => db[k].data.amount \in 0..(Word - 1)
        /\ db[k].data.kind = "Mint" => db[k].data.supply \in 0..(Word - 1)

Kind(kind) == {k \in DOMAIN db : db[k].data.kind = kind}

HoldersOf(mint) == {k \in Kind("Token") : db[k].data.mint = mint}

\* The supply a mint records is the sum of the balances of its token accounts,
\* after any sequence of mints, burns and transfers, near the top of u64 too, where
\* none of them wraps.
SupplyExact ==
    TypeOK /\ \A m \in Kind("Mint") :
        db[m].data.supply = MapThenSumSet(LAMBDA k : db[k].data.amount, HoldersOf(m))

\* Every token account belongs to a mint that is still there, and the token
\* program still owns both: neither Assign nor CreateAccount can take one over.
TokensRooted ==
    /\ \A k \in Kind("Token") : IsToken(k) /\ IsMint(db[k].data.mint)
    /\ \A m \in Kind("Mint") : IsMint(m)

\* Tokens leave an account only with the signature of its authority, and a supply
\* grows only with that of the mint's.
AuthorizedOnly ==
    [][/\ \A k \in Kind("Token") :
             db'[k].data.amount < db[k].data.amount => op'.signer = db[k].data.authority
       /\ \A m \in Kind("Mint") :
             db'[m].data.supply > db[m].data.supply => op'.signer = db[m].data.authority
      ]_vars

total_lamports(b) == MapThenSumSet(LAMBDA k : b[k].lamports, DOMAIN b)

\* Lamports only move: no instruction other than the creation of a mint and the
\* transfer of an account to itself changes their total.
LamportsMove ==
    [][\/ total_lamports(db') = total_lamports(db)
       \/ op'.name = "InitializeMint"
       \/ op'.name = "Transfer" /\ op'.accounts = {op'.signer}]_vars

\* What the comment on total_lamports calls the supply invariant, of transfers:
\* they preserve the total.
TransfersPreserveSupply ==
    [][op'.name = "Transfer" => total_lamports(db') = total_lamports(db)]_vars
===============================================================================
