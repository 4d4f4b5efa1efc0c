CONSTANTS
    P = P
    Q = Q
    Peers = {P, Q}
    Transmissions = 2
    Channels = 2
    PermissionTimeout = 2
    BindingTimeout = 3
    ExpireTimeout = 1
    PermissionLife = 3
    BindingLife = 4
    Scenarios <- MCTurn
SPECIFICATION FairSpec
INVARIANTS DataInOrder RequestsAgree ServerAgrees
PROPERTY QueuedDataLeaves
